---------------------------- MODULE Spec2Model ----------------------------
(***************************************************************************)
(* Ingestion pipeline of chimera: job lifecycle (ingestion.Service,        *)
(* processing.Service.RunJob), the generic CSV row processor               *)
(* (GenericProcessor.Process / processRow), the staging loader             *)
(* (saveSuccessfulItems + the UpsertItems statement), the triage log       *)
(* (logTriageItems) and the triage correction handler                      *)
(* (TriageHandler.updateIngestionError).                                   *)
(*                                                                         *)
(* Go strings are sequences of one-character strings, so that TrimSpace,   *)
(* strings.Join and integer parsing are computed, not assumed.             *)
(***************************************************************************)
EXTENDS Integers, Sequences, FiniteSets, TLC

(***************************************************************************)
(* Bounds of the model.                                                    *)
(***************************************************************************)
\* rows (data records) that all uploaded files hold together
MaxRows == 2
\* correction requests the operator sends
MaxCorrections == 2
\* fields in a record handed to the repair, and columns in its header row
MaxFields == 5
MaxHeaders == 3
\* requests the items API receives
MaxItemRequests == 1

(***************************************************************************)
(* Strings.                                                                *)
(***************************************************************************)
Range(s) == {s[i] : i \in 1..Len(s)}

\* unicode.IsSpace for the characters up to U+00FF: tab, line feed, vertical
\* tab, form feed, carriage return, space, U+0085 (NEL) and U+00A0 (NBSP)
IsSpace(c) == c \in {"\t", "\n", "", "\f", "\r", " ", "", " "}

RECURSIVE TrimLeft(_)
TrimLeft(s) == IF s # <<>> /\ IsSpace(Head(s)) THEN TrimLeft(Tail(s)) ELSE s

RECURSIVE TrimRight(_)
TrimRight(s) ==
    IF s # <<>> /\ IsSpace(s[Len(s)]) THEN TrimRight(SubSeq(s, 1, Len(s) - 1)) ELSE s

\* strings.TrimSpace
TrimSpace(s) == TrimRight(TrimLeft(s))

\* strings.Join(parts, sep)
RECURSIVE Join(_, _)
Join(parts, sep) ==
    IF parts = <<>> THEN <<>>
    ELSE IF Len(parts) = 1 THEN parts[1]
    ELSE parts[1] \o sep \o Join(Tail(parts), sep)

\* strings.ReplaceAll(s, ",", "")
RECURSIVE RemoveCommas(_)
RemoveCommas(s) ==
    IF s = <<>> THEN <<>>
    ELSE IF Head(s) = "," THEN RemoveCommas(Tail(s))
    ELSE <<Head(s)>> \o RemoveCommas(Tail(s))

Digits == {"0", "1", "2", "3", "4", "5", "6", "7", "8", "9"}

DigitVal(c) ==
    CASE c = "0" -> 0 [] c = "1" -> 1 [] c = "2" -> 2 [] c = "3" -> 3 [] c = "4" -> 4
      [] c = "5" -> 5 [] c = "6" -> 6 [] c = "7" -> 7 [] c = "8" -> 8 [] c = "9" -> 9

DigitChar(d) ==
    CASE d = 0 -> "0" [] d = 1 -> "1" [] d = 2 -> "2" [] d = 3 -> "3" [] d = 4 -> "4"
      [] d = 5 -> "5" [] d = 6 -> "6" [] d = 7 -> "7" [] d = 8 -> "8" [] d = 9 -> "9"

\* the number a digit string stands for, accumulated with the sign sgn (1 or
\* -1) so that the least value of a width is reached without its negation
RECURSIVE DigitsVal(_, _, _)
DigitsVal(s, acc, sgn) ==
    IF s = <<>> THEN acc
    ELSE DigitsVal(Tail(s), acc * 10 + sgn * DigitVal(Head(s)), sgn)

\* strconv.ParseInt(s, 10, bitSize) for bitSize 32 and 64: an optional sign and
\* one or more digits (ErrSyntax otherwise); a magnitude above 2^(bitSize-1) - 1,
\* or above 2^(bitSize-1) after "-", is ErrRange.  The range is decided on the
\* digits, before the value is computed.
ParseInt(s, bitSize) ==
    LET signed == s # <<>> /\ Head(s) \in {"+", "-"}
        neg    == signed /\ Head(s) = "-"
        body   == IF signed THEN Tail(s) ELSE s
        nz     == {i \in 1..Len(body) : body[i] # "0"}
        sig    == IF nz = {} THEN <<>>
                  ELSE SubSeq(body, CHOOSE i \in nz : \A k \in nz : i <= k, Len(body))
        top    == IF bitSize = 32
                  THEN <<"2", "1", "4", "7", "4", "8", "3", "6", "4">>
                  ELSE <<"9", "2", "2", "3", "3", "7", "2", "0", "3", "6",
                         "8", "5", "4", "7", "7", "5", "8", "0">>
        lim    == top \o (IF neg THEN <<"8">> ELSE <<"7">>)
        above  == \/ Len(sig) > Len(lim)
                  \/ /\ Len(sig) = Len(lim)
                     /\ \E i \in 1..Len(lim) :
                            /\ DigitVal(sig[i]) > DigitVal(lim[i])
                            /\ \A k \in 1..(i - 1) : sig[k] = lim[k]
    IN  IF body = <<>> \/ \E i \in 1..Len(body) : body[i] \notin Digits
        THEN [ok |-> FALSE, n |-> 0]
        ELSE IF above THEN [ok |-> FALSE, n |-> 0]
        ELSE [ok |-> TRUE, n |-> DigitsVal(sig, 0, IF neg THEN 0 - 1 ELSE 1)]

RECURSIVE NatStr(_)
NatStr(n) == IF n < 10 THEN <<DigitChar(n)>> ELSE NatStr(n \div 10) \o <<DigitChar(n % 10)>>

\* fmt.Sprintf("%d", n)
IntStr(n) == IF n < 0 THEN <<"-">> \o NatStr(0 - n) ELSE NatStr(n)

(***************************************************************************)
(* Values of type interface{} that a column can hold after its transforms. *)
(***************************************************************************)
StrV(s) == [t |-> "string", s |-> s]
NilV    == [t |-> "nil"]
IntV(n) == [t |-> "int64", n |-> n]
\* decimal.Decimal: coef * 10^exp
DecV(coef, exp) == [t |-> "decimal", coef |-> coef, exp |-> exp]
\* time.Time at midnight UTC of a calendar day
TimeV(y, m, d) == [t |-> "time", y |-> y, m |-> m, d |-> d]

RECURSIVE StripZeros(_, _)
\* the digits of a decimal's fraction without trailing zeros
StripZeros(coef, exp) ==
    IF exp < 0 /\ coef % 10 = 0 THEN StripZeros(coef \div 10, exp + 1)
    ELSE [coef |-> coef, exp |-> exp]

RECURSIVE PadLeft(_, _)
PadLeft(s, n) == IF Len(s) >= n THEN s ELSE PadLeft(<<"0">> \o s, n)

RECURSIVE Pow10(_)
Pow10(k) == IF k = 0 THEN 1 ELSE 10 * Pow10(k - 1)

\* decimal.Decimal.String()
DecStr(coef, exp) ==
    LET z    == StripZeros(IF coef < 0 THEN 0 - coef ELSE coef, exp)
        sign == IF coef < 0 THEN <<"-">> ELSE <<>>
    IN  IF z.exp >= 0 THEN sign \o NatStr(z.coef * Pow10(z.exp))
        ELSE LET p == Pow10(0 - z.exp)
             IN  sign \o NatStr(z.coef \div p) \o <<".">>
                      \o PadLeft(NatStr(z.coef % p), 0 - z.exp)

\* the calendar day of a time.Time as 2006-01-02
DayStr(v) ==
    PadLeft(NatStr(v.y), 4) \o <<"-">> \o PadLeft(NatStr(v.m), 2) \o <<"-">>
        \o PadLeft(NatStr(v.d), 2)

\* time.Time formatted as RFC 3339 (the form json.Marshal writes)
TimeStr(v) == DayStr(v) \o <<"T", "0", "0", ":", "0", "0", ":", "0", "0", "Z">>

\* time.Time.String(), the form %v writes: 2006-01-02 15:04:05 +0000 UTC
TimeGoStr(v) ==
    DayStr(v) \o <<" ", "0", "0", ":", "0", "0", ":", "0", "0", " ",
                   "+", "0", "0", "0", "0", " ", "U", "T", "C">>

\* fmt.Sprintf("%v", val), as far as the key and embedding text need it
FmtV(v) ==
    CASE v.t = "string"  -> v.s
      [] v.t = "int64"   -> IntStr(v.n)
      [] v.t = "decimal" -> DecStr(v.coef, v.exp)
      [] v.t = "time"    -> TimeGoStr(v)
      [] v.t = "nil"     -> <<"<", "n", "i", "l", ">">>

(***************************************************************************)
(* JSON values, as json.Marshal writes a processed field.                  *)
(***************************************************************************)
JStr(s) == [j |-> "string", s |-> s]
JNum(n) == [j |-> "number", n |-> n]
JNull   == [j |-> "null"]

ToJSON(v) ==
    CASE v.t = "string"  -> JStr(v.s)
      [] v.t = "int64"   -> JNum(v.n)
      [] v.t = "decimal" -> JStr(DecStr(v.coef, v.exp))
      [] v.t = "time"    -> JStr(TimeStr(v))
      [] v.t = "nil"     -> JNull

(***************************************************************************)
(* Transform registry.  A transform returns [ok, val]; ok = FALSE is the   *)
(* Go error.                                                               *)
(***************************************************************************)
Fail == [ok |-> FALSE, val |-> NilV]
Ok(v) == [ok |-> TRUE, val |-> v]

\* unicode.ToUpper for the characters up to U+00FF: the letters a..z and the
\* Latin-1 letters U+00E0..U+00FE but the division sign have an upper case.
\* U+00FF and the micro sign have theirs beyond U+00FF, where the strings of
\* this module do not reach: the operator has no value for them.  Every other
\* character maps to itself.
ToUpperChar(c) ==
    LET lower == <<"a", "b", "c", "d", "e", "f", "g", "h", "i", "j", "k", "l", "m",
                   "n", "o", "p", "q", "r", "s", "t", "u", "v", "w", "x", "y", "z",
                   "à", "á", "â", "ã", "ä", "å",
                   "æ", "ç", "è", "é", "ê", "ë",
                   "ì", "í", "î", "ï", "ð", "ñ",
                   "ò", "ó", "ô", "õ", "ö", "ø",
                   "ù", "ú", "û", "ü", "ý", "þ">>
        upper == <<"A", "B", "C", "D", "E", "F", "G", "H", "I", "J", "K", "L", "M",
                   "N", "O", "P", "Q", "R", "S", "T", "U", "V", "W", "X", "Y", "Z",
                   "À", "Á", "Â", "Ã", "Ä", "Å",
                   "Æ", "Ç", "È", "É", "Ê", "Ë",
                   "Ì", "Í", "Î", "Ï", "Ð", "Ñ",
                   "Ò", "Ó", "Ô", "Õ", "Ö", "Ø",
                   "Ù", "Ú", "Û", "Ü", "Ý", "Þ">>
        at    == {i \in 1..Len(lower) : lower[i] = c}
    IN  CASE c \notin {"ÿ", "µ"} ->
                 IF at = {} THEN c ELSE upper[CHOOSE i \in at : TRUE]

transformTrimSpace(input, arg) ==
    IF input.t # "string" THEN Fail ELSE Ok(StrV(TrimSpace(input.s)))

transformToUppercase(input, arg) ==
    IF input.t # "string" THEN Fail
    ELSE Ok(StrV([i \in 1..Len(input.s) |-> ToUpperChar(input.s[i])]))

transformToInteger(input, arg) ==
    IF input.t # "string" THEN Fail
    ELSE LET cleanStr == TrimSpace(RemoveCommas(input.s))
         IN  IF cleanStr = <<>> THEN Ok(NilV)
             ELSE LET p == ParseInt(cleanStr, 64)
                  IN  IF p.ok THEN Ok(IntV(p.n)) ELSE Fail

\* big.Int.SetString(s, 10): an optional sign and one or more digits, of any
\* length
SetString(s) ==
    LET signed == s # <<>> /\ Head(s) \in {"+", "-"}
        body   == IF signed THEN Tail(s) ELSE s
    IN  IF body = <<>> \/ \E i \in 1..Len(body) : body[i] \notin Digits
        THEN [ok |-> FALSE, n |-> 0]
        ELSE [ok |-> TRUE,
              n  |-> DigitsVal(body, 0, IF signed /\ Head(s) = "-" THEN 0 - 1 ELSE 1)]

\* decimal.NewFromString: [sign]digits[.digits][(e|E)[sign]digits], digits on
\* one side of the point at least.  The value is coef * 10^exp with the digits
\* as written: the exponent after e (a 32-bit integer) less the number of
\* fraction digits, which must stay a 32-bit integer.
transformToDecimal(input, arg) ==
    IF input.t # "string" THEN Fail
    ELSE LET s         == input.s
             es        == {i \in 1..Len(s) : s[i] \in {"E", "e"}}
             eIndex    == IF es = {} THEN 0
                          ELSE CHOOSE i \in es : \A k \in es : i <= k
             value     == IF eIndex = 0 THEN s ELSE SubSeq(s, 1, eIndex - 1)
             dots      == {i \in 1..Len(value) : value[i] = "."}
             pIndex    == IF dots = {} THEN 0 ELSE CHOOSE d \in dots : TRUE
             intString == IF pIndex = 0 THEN value
                          ELSE SubSeq(value, 1, pIndex - 1)
                                   \o SubSeq(value, pIndex + 1, Len(value))
             frac      == IF pIndex = 0 THEN 0 ELSE Len(value) - pIndex
             MinInt32  == 0 - 2147483647 - 1
             Parsed(expInt, dValue) ==
                 IF ~expInt.ok \/ Cardinality(dots) > 1 \/ ~dValue.ok THEN Fail
                 ELSE IF expInt.n < MinInt32 + frac THEN Fail
                 ELSE Ok(DecV(dValue.n, expInt.n - frac))
         IN  Parsed(IF eIndex = 0 THEN [ok |-> TRUE, n |-> 0]
                    ELSE ParseInt(SubSeq(s, eIndex + 1, Len(s)), 32),
                    IF Len(intString) <= 18 THEN ParseInt(intString, 64)
                    ELSE SetString(intString))

IsLeap(y) == (y % 4 = 0 /\ y % 100 # 0) \/ y % 400 = 0

DaysIn(y, m) ==
    IF m = 2 THEN (IF IsLeap(y) THEN 29 ELSE 28)
    ELSE IF m \in {4, 6, 9, 11} THEN 30 ELSE 31

DefaultLayout == <<"2", "0", "0", "6", "-", "0", "1", "-", "0", "2">>

\* time.ParseInLocation(layout, value, time.UTC) for the layouts made of the
\* elements 2006 (four digits), 01 and 02 (two digits each) and the literal
\* characters - and /; t holds the year, month and day read so far.  The month
\* is checked where it is read, the day against the month once the layout is
\* used up, and text left over in value is an error.  Layouts with other
\* elements are outside the model: no case of the operator applies to them.
RECURSIVE ParseInLocation(_, _, _)
ParseInLocation(layout, value, t) ==
    LET Starts(p) == Len(layout) >= Len(p) /\ SubSeq(layout, 1, Len(p)) = p
        Num(k)    == Len(value) >= k /\ \A i \in 1..k : value[i] \in Digits
        Read(k)   == DigitsVal(SubSeq(value, 1, k), 0, 1)
        After(k)  == ParseInLocation(SubSeq(layout, k + 1, Len(layout)),
                                     SubSeq(value, k + 1, Len(value)),
                                     IF k = 4 THEN [t EXCEPT !.y = Read(4)]
                                     ELSE IF k = 1 THEN t
                                     ELSE IF Starts(<<"0", "1">>)
                                          THEN [t EXCEPT !.m = Read(2)]
                                          ELSE [t EXCEPT !.d = Read(2)])
    IN  IF layout = <<>>
        THEN IF value # <<>> \/ t.d < 1 \/ t.d > DaysIn(t.y, t.m) THEN Fail
             ELSE Ok(TimeV(t.y, t.m, t.d))
        ELSE CASE Starts(<<"2", "0", "0", "6">>) ->
                      IF Num(4) THEN After(4) ELSE Fail
               [] Starts(<<"0", "1">>) ->
                      IF Num(2) /\ Read(2) \in 1..12 THEN After(2) ELSE Fail
               [] Starts(<<"0", "2">>) ->
                      IF Num(2) THEN After(2) ELSE Fail
               [] Head(layout) \in {"-", "/"} ->
                      IF value # <<>> /\ Head(value) = Head(layout) THEN After(1)
                      ELSE Fail

\* a layout argument in the mapping replaces the default layout 2006-01-02; a
\* date omitting an element has year 0, January or day 1 there
transformToDate(input, arg) ==
    LET layout == IF arg = <<>> THEN DefaultLayout ELSE arg
    IN  IF input.t # "string" THEN Fail
        ELSE ParseInLocation(layout, input.s, [y |-> 0, m |-> 1, d |-> 1])

\* the names registered in init()
transformRegistry ==
    {"trim_space", "to_uppercase", "to_integer", "to_decimal", "to_date"}

\* transformRegistry[name](input, arg)
Transformer(name, input, arg) ==
    CASE name = "trim_space"   -> transformTrimSpace(input, arg)
      [] name = "to_uppercase" -> transformToUppercase(input, arg)
      [] name = "to_integer"   -> transformToInteger(input, arg)
      [] name = "to_decimal"   -> transformToDecimal(input, arg)
      [] name = "to_date"      -> transformToDate(input, arg)

\* A transform call "name:arg" is the record [name, arg] (strings.SplitN on ":").
\* The error returned names the transform that is unknown or has failed: err is
\* that name.
RECURSIVE applyTransformsFrom(_, _)
applyTransformsFrom(currentValue, transforms) ==
    IF transforms = <<>> THEN Ok(currentValue)
    ELSE LET call == Head(transforms)
             Then(r) == IF ~r.ok THEN [ok |-> FALSE, val |-> NilV, err |-> call.name]
                        ELSE applyTransformsFrom(r.val, Tail(transforms))
         IN  IF call.name \notin transformRegistry
             THEN [ok |-> FALSE, val |-> NilV, err |-> call.name]
             ELSE Then(Transformer(call.name, currentValue, call.arg))

applyTransforms(value, transforms) == applyTransformsFrom(StrV(value), transforms)


(***************************************************************************)
(* Validation registry.  A ValidationRule is                               *)
(*   [Required, AllowZero, Enum, Regex, ExistsInItems]                     *)
(* with AllowZero in {"unset", "true", "false"} (a *bool), Enum a sequence *)
(* of strings, ExistsInItems an item type ("" when absent) and Regex a     *)
(* pattern [set, anchored, parts]: set = FALSE is the empty pattern,        *)
(* otherwise the pattern is a sequence of parts [class, min, more], each a *)
(* character class repeated min times, or min times and more, between ^    *)
(* and $ when anchored.                                                    *)
(* A validator returns TRUE when it returns a nil error.                   *)
(***************************************************************************)
NoRegex == [set |-> FALSE, anchored |-> FALSE, parts |-> <<>>]

\* regexp.MatchString: the parts match consecutive pieces of the string, which
\* make up the whole string when the pattern is anchored and a substring of it
\* otherwise
RECURSIVE RegexMatch(_, _)
RegexMatch(re, str) ==
    IF ~re.anchored
    THEN \E i \in 1..(Len(str) + 1) : \E j \in (i - 1)..Len(str) :
            RegexMatch([re EXCEPT !.anchored = TRUE], SubSeq(str, i, j))
    ELSE IF re.parts = <<>> THEN str = <<>>
    ELSE LET p == Head(re.parts)
         IN  \E k \in p.min..Len(str) :
                /\ p.more \/ k = p.min
                /\ \A i \in 1..k : str[i] \in p.class
                /\ RegexMatch([re EXCEPT !.parts = Tail(@)],
                              SubSeq(str, k + 1, Len(str)))

validationRequired(input, rule) ==
    IF ~rule.Required THEN TRUE
    ELSE IF input.t = "nil" THEN FALSE
    ELSE LET allowZero == ~(rule.AllowZero = "false")
         IN  CASE input.t = "string"  -> TrimSpace(input.s) # <<>>
               [] input.t = "int64"   -> ~(~allowZero /\ input.n = 0)
               [] input.t = "decimal" -> ~(~allowZero /\ input.coef = 0)
               [] input.t = "time"    -> ~(input.y = 1 /\ input.m = 1 /\ input.d = 1)

validateEnum(input, rule) ==
    IF Len(rule.Enum) = 0 THEN TRUE
    ELSE IF input.t # "string" THEN FALSE
    ELSE \E i \in 1..Len(rule.Enum) : input.s = rule.Enum[i]

validateRegex(input, rule) ==
    IF ~rule.Regex.set THEN TRUE
    ELSE IF input.t # "string" THEN FALSE
    ELSE RegexMatch(rule.Regex, input.s)

\* ItemExistsByBusinessKey: SELECT EXISTS(... WHERE item_type = $1 AND business_key = $2)
ItemExistsByBusinessKey(st, itemType, businessKey) ==
    \E i \in 1..Len(st) : st[i].item_type = itemType /\ st[i].business_key = businessKey

\* st is the committed items table the query reads; dbOk = FALSE is a failed query
validateExistsInItems(input, rule, st, dbOk) ==
    IF rule.ExistsInItems = "" THEN TRUE
    ELSE IF input.t # "string" THEN FALSE
    ELSE IF input.s = <<>> THEN TRUE
    ELSE IF ~dbOk THEN FALSE
    ELSE ItemExistsByBusinessKey(st, rule.ExistsInItems, input.s)

\* the names registered in init()
validationRegistry == {"required", "enum", "regex", "exists_in_items"}

\* validationRegistry[name](ctx, queries, value, rules)
Validator(name, value, rules, st, dbOk) ==
    CASE name = "required"        -> validationRequired(value, rules)
      [] name = "enum"            -> validateEnum(value, rules)
      [] name = "regex"           -> validateRegex(value, rules)
      [] name = "exists_in_items" -> validateExistsInItems(value, rules, st, dbOk)

\* The rules whose failure applyValidation can report: it ranges over the map
\* validationRegistry, whose iteration order Go leaves unspecified, and returns at
\* the first rule that fails, so every failing rule can be the one reported.
\* The empty set is a nil error.
applyValidation(value, rules, st, dbOk) ==
    IF value.t = "string" /\ value.s = <<>> /\ ~rules.Required THEN {}
    ELSE {name \in validationRegistry : ~Validator(name, value, rules, st, dbOk)}

(***************************************************************************)
(* Row processing.  A ColumnMapping is                                     *)
(*   [CSVHeader, JSONField, MergeExcessFields, Attempts, Validation]       *)
(* with Attempts a sequence of transform chains.                           *)
(***************************************************************************)
\* what a row's error says: its kind, the column it is about and, for a failed
\* validation, the rule, for failed attempts, the wrapped error of the last one
Reason(kind, col, rule) == [kind |-> kind, col |-> col, rule |-> rule]

\* an attempts loop that goes through every attempt and keeps the value of the
\* last one that succeeds
RECURSIVE tryAttemptsLast(_, _, _)
tryAttemptsLast(rawValue, attempts, transformError) ==
    IF attempts = <<>> THEN [ok |-> FALSE, val |-> NilV, err |-> transformError]
    ELSE LET Pick(r) ==
               LET later == tryAttemptsLast(rawValue, Tail(attempts),
                                            IF r.ok THEN transformError ELSE r.err)
               IN  IF later.ok \/ ~r.ok THEN later ELSE r
         IN  Pick(applyTransforms(rawValue, Head(attempts).Transforms))

\* the attempts loop of processRow from the attempts that are left: the value of
\* the first attempt whose chain succeeds; ok = FALSE when every attempt failed,
\* and err is then transformError, the error of the attempt that failed last
RECURSIVE tryAttempts(_, _, _)
tryAttempts(rawValue, attempts, transformError) ==
    IF attempts = <<>> THEN [ok |-> FALSE, val |-> NilV, err |-> transformError]
    ELSE LET Pick(r) == IF r.ok THEN r
                        ELSE tryAttempts(rawValue, Tail(attempts), r.err)
         IN  Pick(applyTransforms(rawValue, Head(attempts).Transforms))

\* headerMap: trimmed header -> 0-based index, a later duplicate replacing an earlier
HeaderMap(headers) ==
    [h \in {TrimSpace(headers[i]) : i \in 1..Len(headers)} |->
        (CHOOSE i \in 1..Len(headers) :
            /\ TrimSpace(headers[i]) = h
            /\ \A k \in 1..Len(headers) : TrimSpace(headers[k]) = h => k <= i) - 1]

\* validateExistsInItems gets as far as its query for this value
IssuesRead(value, rules) ==
    rules.ExistsInItems # "" /\ value.t = "string" /\ value.s # <<>>

\* a processRow that goes on behind an offending column and reports every
\* offending column
RECURSIVE processRowAllFrom(_, _, _, _, _, _)
processRowAllFrom(mappings, record, headerMap, st, dbOk, processedData) ==
    IF mappings = <<>>
    THEN [ok |-> TRUE, data |-> processedData, reasons |-> {},
          evaluated |-> 0, lookups |-> {}]
    ELSE
      LET mapping  == Head(mappings)
          colIdx   == headerMap[mapping.CSVHeader]
          rawValue == IF colIdx < Len(record) THEN record[colIdx + 1] ELSE <<>>
          Validated(tr) ==
            LET failed  == IF tr.ok
                           THEN applyValidation(tr.val, mapping.Validation, st, dbOk)
                           ELSE {}
                reasons == IF ~tr.ok
                           THEN {Reason("transform", mapping.CSVHeader, tr.err)}
                           ELSE {Reason("validation", mapping.CSVHeader, name) :
                                    name \in failed}
                rest    == processRowAllFrom(Tail(mappings), record, headerMap, st,
                               dbOk,
                               IF reasons = {}
                               THEN (mapping.JSONField :> tr.val) @@ processedData
                               ELSE processedData)
            IN  [ok        |-> rest.ok /\ reasons = {},
                 data      |-> rest.data,
                 reasons   |-> reasons \cup rest.reasons,
                 evaluated |-> rest.evaluated + 1,
                 lookups   |-> rest.lookups \cup
                               (IF tr.ok /\ IssuesRead(tr.val, mapping.Validation)
                                THEN {mapping.CSVHeader} ELSE {})]
      IN  Validated(IF Len(mapping.Attempts) > 0
                    THEN tryAttempts(rawValue, mapping.Attempts, "")
                    ELSE Ok(StrV(rawValue)))

\* The mapping loop of processRow from the mappings that are left.  Besides the
\* result, evaluated counts the mappings the loop looked at and lookups holds
\* the columns whose validation can have issued the cross-reference read.
RECURSIVE processRowFrom(_, _, _, _, _, _)
processRowFrom(mappings, record, headerMap, st, dbOk, processedData) ==
    IF mappings = <<>>
    THEN [ok |-> TRUE, data |-> processedData, reasons |-> {},
          evaluated |-> 0, lookups |-> {}]
    ELSE
      LET mapping  == Head(mappings)
          colIdx   == headerMap[mapping.CSVHeader]
          rawValue == IF colIdx < Len(record) THEN record[colIdx + 1] ELSE <<>>
          \* the rest of the loop body, tr being the outcome of the attempts
          Validated(tr) ==
            IF ~tr.ok
            THEN [ok |-> FALSE, data |-> processedData,
                  reasons |-> {Reason("transform", mapping.CSVHeader, tr.err)},
                  evaluated |-> 1, lookups |-> {}]
            ELSE
              LET failed == applyValidation(tr.val, mapping.Validation, st, dbOk)
                  reads  == IF IssuesRead(tr.val, mapping.Validation)
                            THEN {mapping.CSVHeader} ELSE {}
              IN  IF failed # {}
                  THEN [ok |-> FALSE, data |-> processedData,
                        reasons |-> {Reason("validation", mapping.CSVHeader, name) :
                                        name \in failed},
                        evaluated |-> 1, lookups |-> reads]
                  ELSE LET rest == processRowFrom(Tail(mappings), record, headerMap,
                                       st, dbOk,
                                       (mapping.JSONField :> tr.val) @@ processedData)
                       IN  [rest EXCEPT !.evaluated = @ + 1,
                                        !.lookups = @ \cup reads]
      IN  Validated(IF Len(mapping.Attempts) > 0
                    THEN tryAttempts(rawValue, mapping.Attempts, "")
                    ELSE Ok(StrV(rawValue)))

\* processRow: [ok, data] with data the processed fields, or ok = FALSE and the
\* reasons the returned error can carry
processRow(config, record, headerMap, st, dbOk) ==
    processRowFrom(config.ColumnMappings, record, headerMap, st, dbOk, <<>>)

isRowBlank(record) == \A i \in 1..Len(record) : TrimSpace(record[i]) = <<>>

\* createOriginalRecordMap: header -> field, "" for a header the record is too
\* short for; of two equal headers the later one's field stays
createOriginalRecordMap(record, headers) ==
    [h \in Range(headers) |->
        LET i == CHOOSE i \in 1..Len(headers) :
                    /\ headers[i] = h
                    /\ \A k \in 1..Len(headers) : headers[k] = h => k <= i
        IN  IF i <= Len(record) THEN record[i] ELSE <<>>]

\* 0-based index of the merge target column, -1 when no mapping asks for a merge
mergeColumnIndex(config, headerMap) ==
    LET ms == {i \in 1..Len(config.ColumnMappings) :
                  /\ config.ColumnMappings[i].MergeExcessFields
                  /\ config.ColumnMappings[i].CSVHeader \in DOMAIN headerMap}
    IN  IF ms = {} THEN -1
        ELSE headerMap[config.ColumnMappings[CHOOSE i \in ms : \A k \in ms : i <= k].CSVHeader]

\* a repair that merges one field too few
repairRecordShort(record, numHeaders, mergeIdx) ==
    IF Len(record) > numHeaders /\ mergeIdx # -1
    THEN LET numExtraFields  == Len(record) - numHeaders
             endOfMergeIndex == mergeIdx + numExtraFields - 1
             fieldsToMerge   == SubSeq(record, mergeIdx + 1, endOfMergeIndex + 1)
             rejoinedValue   == Join(fieldsToMerge, <<",">>)
         IN  SubSeq(record, 1, mergeIdx) \o <<rejoinedValue>>
                 \o SubSeq(record, endOfMergeIndex + 2, Len(record))
    ELSE record

\* the repair at the top of the record loop
repairRecord(record, numHeaders, mergeIdx) ==
    IF Len(record) > numHeaders /\ mergeIdx # -1
    THEN LET numExtraFields  == Len(record) - numHeaders
             endOfMergeIndex == mergeIdx + numExtraFields
             fieldsToMerge   == SubSeq(record, mergeIdx + 1, endOfMergeIndex + 1)
             rejoinedValue   == Join(fieldsToMerge, <<",">>)
         IN  SubSeq(record, 1, mergeIdx) \o <<rejoinedValue>>
                 \o SubSeq(record, endOfMergeIndex + 2, Len(record))
    ELSE record

\* JSON field of the scope column, "" (the empty string) when no mapping has it
scopeJSONField(config) ==
    LET ms == {i \in 1..Len(config.ColumnMappings) :
                  config.ColumnMappings[i].CSVHeader = config.ScopeField}
    IN  IF ms = {} THEN <<>>
        ELSE config.ColumnMappings[CHOOSE i \in ms : \A k \in ms : i <= k].JSONField

\* the text handed to the embedder: "%v " of every source column present, trimmed
RECURSIVE embedText(_, _)
embedText(sourceColumns, processedData) ==
    IF sourceColumns = <<>> THEN <<>>
    ELSE (IF Head(sourceColumns) \in DOMAIN processedData
          THEN FmtV(processedData[Head(sourceColumns)]) \o <<" ">>
          ELSE <<>>) \o embedText(Tail(sourceColumns), processedData)

textToEmbed(config, processedData) ==
    TrimSpace(embedText(config.EmbedContent.SourceColumns, processedData))

\* the business key loop: the parts in declared order, or the first field that is
\* missing or nil
RECURSIVE businessKeyParts(_, _, _)
businessKeyParts(fields, processedData, parts) ==
    IF fields = <<>> THEN [ok |-> TRUE, parts |-> parts, field |-> <<>>]
    ELSE LET field == Head(fields)
         IN  IF field \notin DOMAIN processedData \/ processedData[field].t = "nil"
             THEN [ok |-> FALSE, parts |-> parts, field |-> field]
             ELSE businessKeyParts(Tail(fields), processedData,
                                   Append(parts, FmtV(processedData[field])))

\* json.Marshal(processedData)
customPropsJSON(processedData) ==
    [k \in DOMAIN processedData |-> ToJSON(processedData[k])]

Blank == [kind |-> "blank"]
\* a TriageRow; index, the record's position in the file, is no field of the Go
\* struct: it is kept to state properties of the row
Triaged(record, headers, reason, i) ==
    [kind |-> "triage",
     row  |-> [OriginalRecord |-> createOriginalRecordMap(record, headers),
               FailureReason  |-> reason,
               index          |-> i]]
Success(item) == [kind |-> "item", item |-> item]

\* a record loop that goes on without a vector when the embedder fails
ClassifyRecordDroppingVector(config, headers, rawRecord, i, st, dbOk, emb, haveEmbedder) ==
    LET headerMap  == HeaderMap(headers)
        numHeaders == Len(headers)
        record     == repairRecord(rawRecord, numHeaders,
                                   mergeColumnIndex(config, headerMap))
    IN  IF Len(record) # numHeaders
        THEN {Triaged(record, headers, Reason("width", <<>>, ""), i)}
        ELSE IF isRowBlank(record) THEN {Blank}
        ELSE
          LET pr == processRow(config, record, headerMap, st, dbOk)
          IN  IF ~pr.ok THEN {Triaged(record, headers, r, i) : r \in pr.reasons}
              ELSE
                LET text     == IF config.EmbedContent.set /\ haveEmbedder
                                THEN textToEmbed(config, pr.data) ELSE <<>>
                    called   == text # <<>>
                    scopeFld == scopeJSONField(config)
                    key      == businessKeyParts(config.BusinessKey, pr.data, <<>>)
                IN  IF scopeFld \notin DOMAIN pr.data \/ pr.data[scopeFld].t = "nil"
                    THEN {Triaged(record, headers, Reason("scope_missing", scopeFld, ""), i)}
                    ELSE IF pr.data[scopeFld].t # "string"
                    THEN {Triaged(record, headers, Reason("scope_not_string", scopeFld, ""), i)}
                    ELSE IF ~key.ok
                    THEN {Triaged(record, headers, Reason("business_key", key.field, ""), i)}
                    ELSE {Success([item_type         |-> config.ItemType,
                                   scope             |-> pr.data[scopeFld].s,
                                   business_key      |-> Join(key.parts, <<"-">>),
                                   status            |-> "active",
                                   custom_properties |-> customPropsJSON(pr.data),
                                   embedding         |-> IF called /\ emb.ok THEN emb.dims
                                                         ELSE 0])}

\* One pass of the record loop of Process for record number i (1-based): the
\* outcomes the row can have.  dbOk is whether a cross-reference query succeeds,
\* emb the embedder's answer [ok, dims] should it be called.
ClassifyRecord(config, headers, rawRecord, i, st, dbOk, emb, haveEmbedder) ==
    LET headerMap  == HeaderMap(headers)
        numHeaders == Len(headers)
        record     == repairRecord(rawRecord, numHeaders,
                                   mergeColumnIndex(config, headerMap))
    IN  IF Len(record) # numHeaders
        THEN {Triaged(record, headers, Reason("width", <<>>, ""), i)}
        ELSE IF isRowBlank(record) THEN {Blank}
        ELSE
          LET pr == processRow(config, record, headerMap, st, dbOk)
          IN  IF ~pr.ok THEN {Triaged(record, headers, r, i) : r \in pr.reasons}
              ELSE
                LET text     == IF config.EmbedContent.set /\ haveEmbedder
                                THEN textToEmbed(config, pr.data) ELSE <<>>
                    called   == text # <<>>
                    scopeFld == scopeJSONField(config)
                    key      == businessKeyParts(config.BusinessKey, pr.data, <<>>)
                IN  IF called /\ ~emb.ok
                    THEN {Triaged(record, headers, Reason("embedding", <<>>, ""), i)}
                    ELSE IF scopeFld \notin DOMAIN pr.data \/ pr.data[scopeFld].t = "nil"
                    THEN {Triaged(record, headers, Reason("scope_missing", scopeFld, ""), i)}
                    ELSE IF pr.data[scopeFld].t # "string"
                    THEN {Triaged(record, headers, Reason("scope_not_string", scopeFld, ""), i)}
                    ELSE IF ~key.ok
                    THEN {Triaged(record, headers, Reason("business_key", key.field, ""), i)}
                    ELSE {Success([item_type         |-> config.ItemType,
                                   scope             |-> pr.data[scopeFld].s,
                                   business_key      |-> Join(key.parts, <<"-">>),
                                   status            |-> "active",
                                   custom_properties |-> customPropsJSON(pr.data),
                                   embedding         |-> IF called THEN emb.dims ELSE 0])}

(***************************************************************************)
(* The loaded configurations (ConfigLoader.configs) and the uploads of the *)
(* model.                                                                  *)
(***************************************************************************)
H_id     == <<"i", "d">>
H_status == <<"s", "t", "a", "t", "u", "s">>
H_note   == <<"n", "o", "t", "e">>
F_memo   == <<"m", "e", "m", "o">>

NoRule ==
    [Required |-> FALSE, AllowZero |-> "unset", Enum |-> <<>>, Regex |-> NoRegex,
     ExistsInItems |-> ""]

Chain(names) == [Transforms |-> [i \in 1..Len(names) |-> [name |-> names[i], arg |-> <<>>]]]

StatusMapping ==
    [CSVHeader |-> H_status, JSONField |-> H_status, MergeExcessFields |-> FALSE,
     Attempts |-> <<Chain(<<"trim_space">>)>>,
     Validation |-> [NoRule EXCEPT !.Required = TRUE, !.Enum = <<<<"A">>, <<"B">>>>]]

\* report type "plain": id and status, no repair, no embedding
PlainConfig ==
    [ReportType |-> "plain", ItemType |-> "T", ScopeField |-> H_status,
     BusinessKey |-> <<H_id>>,
     EmbedContent |-> [set |-> FALSE, SourceColumns |-> <<>>],
     ColumnMappings |-> <<
        [CSVHeader |-> H_id, JSONField |-> H_id, MergeExcessFields |-> FALSE,
         Attempts |-> <<>>, Validation |-> [NoRule EXCEPT !.Required = TRUE]],
        StatusMapping >>]

\* report type "full": id as an integer, note as the merge target and the
\* embedded text
FullConfig ==
    [ReportType |-> "full", ItemType |-> "T", ScopeField |-> H_status,
     BusinessKey |-> <<H_id>>,
     EmbedContent |-> [set |-> TRUE, SourceColumns |-> <<F_memo>>],
     ColumnMappings |-> <<
        [CSVHeader |-> H_id, JSONField |-> H_id, MergeExcessFields |-> FALSE,
         Attempts |-> <<Chain(<<"to_integer">>)>>, Validation |-> NoRule],
        StatusMapping,
        [CSVHeader |-> H_note, JSONField |-> F_memo, MergeExcessFields |-> TRUE,
         Attempts |-> <<>>, Validation |-> NoRule] >>]

H_employee == <<"e", "m", "p", "l", "o", "y", "e", "e", "_", "i", "d">>
H_email    == <<"e", "m", "a", "i", "l">>
H_mgr      == <<"m", "a", "n", "a", "g", "e", "r", "_", "i", "d">>

\* testConfig of TestProcessRowValidation: a required employee_id, a required
\* status of an enumeration, a required email matching
\*   ^[a-zA-Z0-9._%+-]+@[a-zA-Z0-9.-]+\.[a-zA-Z]{2,}$
\* and a manager_id that has to exist as an item of type USER_PROFILE.  Its
\* scope field, department, is no mapped column.
TestConfig ==
    LET alpha == {
                  "a", "b", "c", "d", "e", "f", "g", "h", "i", "j", "k", "l",
                  "m", "n", "o", "p", "q", "r", "s", "t", "u", "v", "w", "x",
                  "y", "z", "A", "B", "C", "D", "E", "F", "G", "H", "I", "J",
                  "K", "L", "M", "N", "O", "P", "Q", "R", "S", "T", "U", "V",
                  "W", "X", "Y", "Z" }
        alnum == alpha \cup Digits
        Part(class, min, more) == [class |-> class, min |-> min, more |-> more]
    IN
    [ReportType |-> "TEST_VALIDATION", ItemType |-> "TEST_ITEM",
     ScopeField |-> <<"d", "e", "p", "a", "r", "t", "m", "e", "n", "t">>,
     BusinessKey |-> <<H_employee>>,
     EmbedContent |-> [set |-> FALSE, SourceColumns |-> <<>>],
     ColumnMappings |-> <<
        [CSVHeader |-> H_employee, JSONField |-> H_employee,
         MergeExcessFields |-> FALSE, Attempts |-> <<>>,
         Validation |-> [NoRule EXCEPT !.Required = TRUE]],
        [CSVHeader |-> H_status, JSONField |-> H_status, MergeExcessFields |-> FALSE,
         Attempts |-> <<>>,
         Validation |->
            [NoRule EXCEPT !.Required = TRUE,
                           !.Enum = << <<"A", "C", "T", "I", "V", "E">>,
                                       <<"I", "N", "A", "C", "T", "I", "V", "E">>,
                                       <<"T", "E", "R", "M", "I", "N", "A", "T", "E", "D">> >>]],
        [CSVHeader |-> H_email, JSONField |-> H_email, MergeExcessFields |-> FALSE,
         Attempts |-> <<>>,
         Validation |->
            [NoRule EXCEPT
               !.Required = TRUE,
               !.Regex = [set |-> TRUE, anchored |-> TRUE,
                          parts |-> << Part(alnum \cup {".", "_", "%", "+", "-"}, 1, TRUE),
                                       Part({"@"}, 1, FALSE),
                                       Part(alnum \cup {".", "-"}, 1, TRUE),
                                       Part({"."}, 1, FALSE),
                                       Part(alpha, 2, TRUE) >>]]],
        [CSVHeader |-> H_mgr, JSONField |-> H_mgr, MergeExcessFields |-> FALSE,
         Attempts |-> <<>>,
         Validation |-> [NoRule EXCEPT !.ExistsInItems = "USER_PROFILE"]] >>]

\* report type "key": a business key of three fields, two of them integers that
\* an empty field leaves nil
KeyConfig ==
    [ReportType |-> "key", ItemType |-> "T", ScopeField |-> H_status,
     BusinessKey |-> <<H_status, H_id, F_memo>>,
     EmbedContent |-> [set |-> FALSE, SourceColumns |-> <<>>],
     ColumnMappings |-> <<
        [CSVHeader |-> H_id, JSONField |-> H_id, MergeExcessFields |-> FALSE,
         Attempts |-> <<Chain(<<"to_integer">>)>>, Validation |-> NoRule],
        StatusMapping,
        [CSVHeader |-> H_note, JSONField |-> F_memo, MergeExcessFields |-> FALSE,
         Attempts |-> <<Chain(<<"to_integer">>)>>, Validation |-> NoRule] >>]

\* report type "typo": the plain configuration with an id whose first attempt
\* names a transform that is not registered and whose second attempt trims
TypoConfig ==
    [PlainConfig EXCEPT
        !.ReportType = "typo",
        !.ColumnMappings[1].Attempts = <<Chain(<<"to_int">>), Chain(<<"trim_space">>)>>]

\* report type "tries": an id with three attempts (trimmed integer, decimal,
\* date), a status without attempts or rules and a note in upper case
TriesConfig ==
    [ReportType |-> "tries", ItemType |-> "T", ScopeField |-> H_status,
     BusinessKey |-> <<H_id>>,
     EmbedContent |-> [set |-> FALSE, SourceColumns |-> <<>>],
     ColumnMappings |-> <<
        [CSVHeader |-> H_id, JSONField |-> H_id, MergeExcessFields |-> FALSE,
         Attempts |-> <<Chain(<<"trim_space", "to_integer">>), Chain(<<"to_decimal">>),
                        Chain(<<"to_date">>)>>,
         Validation |-> NoRule],
        [CSVHeader |-> H_status, JSONField |-> H_status, MergeExcessFields |-> FALSE,
         Attempts |-> <<>>, Validation |-> NoRule],
        [CSVHeader |-> H_note, JSONField |-> F_memo, MergeExcessFields |-> FALSE,
         Attempts |-> <<Chain(<<"to_uppercase">>)>>, Validation |-> NoRule] >>]

\* report type "ref": items of type "R" whose id has to be the business key of
\* an item of type "T", the type the other report types load
RefConfig ==
    [ReportType |-> "ref", ItemType |-> "R", ScopeField |-> H_status,
     BusinessKey |-> <<H_id>>,
     EmbedContent |-> [set |-> FALSE, SourceColumns |-> <<>>],
     ColumnMappings |-> <<
        [CSVHeader |-> H_id, JSONField |-> H_id, MergeExcessFields |-> FALSE,
         Attempts |-> <<>>,
         Validation |-> [NoRule EXCEPT !.Required = TRUE, !.ExistsInItems = "T"]],
        StatusMapping >>]

\* a Validate that does not look for the scope field among the mapped headers
ValidateWithoutScopeLookup(c) ==
    IF c.ReportType = "" THEN "report_type"
    ELSE IF c.ItemType = "" THEN "item_type"
    ELSE IF c.ScopeField = <<>> THEN "scope_field"
    ELSE IF Len(c.BusinessKey) = 0 THEN "business_key"
    ELSE IF Len(c.ColumnMappings) = 0 THEN "column_mappings"
    ELSE "nil"

\* IngestionConfig.Validate: "nil", or what the returned error complains about
Validate(c) ==
    IF c.ReportType = "" THEN "report_type"
    ELSE IF c.ItemType = "" THEN "item_type"
    ELSE IF c.ScopeField = <<>> THEN "scope_field"
    ELSE IF Len(c.BusinessKey) = 0 THEN "business_key"
    ELSE IF Len(c.ColumnMappings) = 0 THEN "column_mappings"
    ELSE LET definedHeaders == {c.ColumnMappings[i].CSVHeader :
                                   i \in 1..Len(c.ColumnMappings)}
         IN  IF c.ScopeField \notin definedHeaders THEN "scope_header"
             ELSE "nil"

\* the configurations the loader holds, by report type: NewConfigLoader
\* returns an error, and no loader, when a file fails Validate, so each of
\* them passes it
configs ==
    ("plain" :> PlainConfig) @@ ("full" :> FullConfig) @@ ("key" :> KeyConfig)
        @@ ("typo" :> TypoConfig) @@ ("tries" :> TriesConfig) @@ ("ref" :> RefConfig)

\* report types an upload can name; "other" has no configuration
ReportTypes == {"plain", "full", "ref", "other"}

\* ConfigLoader.GetConfig
GetConfig(reportType) ==
    IF reportType \in DOMAIN configs
    THEN [found |-> TRUE, config |-> configs[reportType]]
    ELSE [found |-> FALSE, config |-> PlainConfig]

\* GenericProcessor.config of the processors NewGenericProcessor builds: RunJob
\* hands it what GetConfig returned, TestProcessRowValidation its testConfig, a
\* struct built in the test that no loader has read (its scope field is no
\* mapped header)
GenericProcessor ==
    configs @@ ("TEST_VALIDATION" :> TestConfig)

GoodHeaders == <<H_id, H_status, H_note>>
\* a header row without the status column
BadHeaders  == <<H_id, H_note>>

(***************************************************************************)
(* encoding/csv as Process configures it: TrimLeadingSpace = true,         *)
(* FieldsPerRecord = -1, LazyQuotes = false.  ReadAll returns [ok,         *)
(* records]; ok = FALSE is a *csv.ParseError.                              *)
(***************************************************************************)
ParseError == [ok |-> FALSE, records |-> <<>>]

\* The reader over the text that is left.  mode is where it stands: "line" at
\* the start of a line, "start" at the start of a field, "plain" in a field
\* without quotes, "quoted" inside quotes (where commas and line ends belong to
\* the field), "after" behind a closing quote.  readLine hands over a line
\* ending in carriage return and line feed without the carriage return, inside
\* quotes as well, and drops a carriage return that ends the text.
RECURSIVE ReadAllFrom(_, _, _, _, _)
ReadAllFrom(text, mode, field, record, records) ==
    IF text = <<>>
    THEN CASE mode = "line"   -> [ok |-> TRUE, records |-> records]
           [] mode = "quoted" -> ParseError
           [] OTHER           -> [ok |-> TRUE,
                                  records |-> Append(records, Append(record, field))]
    ELSE
      LET c    == Head(text)
          rest == Tail(text)
      IN  CASE c = "\r" /\ (rest = <<>> \/ Head(rest) = "\n") ->
                 ReadAllFrom(rest, mode, field, record, records)
            [] mode = "line" ->
                 IF c = "\n" THEN ReadAllFrom(rest, "line", <<>>, <<>>, records)
                 ELSE ReadAllFrom(text, "start", <<>>, <<>>, records)
            [] mode = "start" ->
                 IF c = "\n"
                 THEN ReadAllFrom(rest, "line", <<>>, <<>>,
                                  Append(records, Append(record, <<>>)))
                 ELSE IF IsSpace(c) THEN ReadAllFrom(rest, "start", <<>>, record, records)
                 ELSE IF c = "\"" THEN ReadAllFrom(rest, "quoted", <<>>, record, records)
                 ELSE IF c = ","
                 THEN ReadAllFrom(rest, "start", <<>>, Append(record, <<>>), records)
                 ELSE ReadAllFrom(rest, "plain", <<c>>, record, records)
            [] mode = "plain" ->
                 IF c = "\n"
                 THEN ReadAllFrom(rest, "line", <<>>, <<>>,
                                  Append(records, Append(record, field)))
                 ELSE IF c = ","
                 THEN ReadAllFrom(rest, "start", <<>>, Append(record, field), records)
                 ELSE IF c = "\"" THEN ParseError
                 ELSE ReadAllFrom(rest, "plain", Append(field, c), record, records)
            [] mode = "quoted" ->
                 IF c = "\"" THEN ReadAllFrom(rest, "after", field, record, records)
                 ELSE ReadAllFrom(rest, "quoted", Append(field, c), record, records)
            [] mode = "after" ->
                 IF c = "\"" THEN ReadAllFrom(rest, "quoted", Append(field, c), record, records)
                 ELSE IF c = ","
                 THEN ReadAllFrom(rest, "start", <<>>, Append(record, field), records)
                 ELSE IF c = "\n"
                 THEN ReadAllFrom(rest, "line", <<>>, <<>>,
                                  Append(records, Append(record, field)))
                 ELSE ParseError

\* csvReader.ReadAll() over the text behind the header row
ReadAll(text) == ReadAllFrom(text, "line", <<>>, <<>>, <<>>)

\* the text of a file part: its lines, each ended by a line feed
RECURSIVE FileText(_)
FileText(lines) ==
    IF lines = <<>> THEN <<>> ELSE Head(lines) \o <<"\n">> \o FileText(Tail(lines))

\* the lines uploads are made of behind the header row:
\*   1,A,n     1,B,     2,P,n,x     2,A,n,x     " ",,     2,A,n"x
\* the second one ends in a carriage return before its line feed, the last one
\* has a quote inside a field that does not begin with one
DataLines ==
    { <<"1", ",", "A", ",", "n">>,
      <<"1", ",", "B", ",", "\r">>,
      <<"2", ",", "P", ",", "n", ",", "x">>,
      <<"2", ",", "A", ",", "n", ",", "x">>,
      <<"\"", " ", "\"", ",", ",">>,
      <<"2", ",", "A", ",", "n", "\"", "x">> }

SeqsUpTo(S, n) == UNION {[1..k -> S] : k \in 0..n}

\* const maxEmbeddingDims in saveSuccessfulItems; also the width of items.embedding
maxEmbeddingDims == 384

\* answers of the embedding function: an error, a vector of the store's width, a
\* vector one wider
EmbedErr == [ok |-> FALSE, dims |-> 0]
EmbedOutcomes ==
    {EmbedErr, [ok |-> TRUE, dims |-> maxEmbeddingDims],
     [ok |-> TRUE, dims |-> maxEmbeddingDims + 1]}

\* corrected_data bodies an operator sends
CorrData == { (H_id :> JStr(<<"7">>)), (H_status :> JStr(<<"A">>)) }

JobIds == {"j1", "j2"}

(***************************************************************************)
(* State.                                                                  *)
(*   jobs     table ingestion_jobs, by job id; status "none" = no row yet  *)
(*   errors   table ingestion_errors, by row id; the id uuid.New() gives   *)
(*            the n-th triage row of job j is <<j, n>>                     *)
(*   store    table items (committed rows), in insertion order             *)
(*   run      the RunJob goroutine of each job: position and locals (file  *)
(*            is the lines of the uploaded object behind its header row);  *)
(*            cancelledAt is "no" until jobCtx is done, then tells whether *)
(*            the record loop was running at that moment                   *)
(*   corr     the updateIngestionError request in progress                 *)
(*   rowsLeft, corrLeft   what the environment may still send              *)
(*   calc     a single call of one of the pure functions of the pipeline:  *)
(*            its arguments and, once made, its result                     *)
(*   itemReq  the request of the items API (PATCH /items/:id, or the claim *)
(*            update) that has read its item and not yet written it        *)
(*   itemsLeft   the requests the items API may still receive              *)
(***************************************************************************)
VARIABLES jobs, errors, store, run, corr, rowsLeft, corrLeft, calc, itemReq, itemsLeft

vars == <<jobs, errors, store, run, corr, rowsLeft, corrLeft, calc, itemReq, itemsLeft>>

\* NULL of an integer column
Null == -1

NoJob ==
    [status |-> "none", completed_at |-> FALSE, error_details |-> "",
     processed_rows |-> Null, initial_error_count |-> Null, resolved_rows_count |-> 0]

IdleRun ==
    [pc |-> "idle", reportType |-> "plain", cancelledAt |-> "no",
     headers |-> <<>>, file |-> <<>>, allRecords |-> <<>>, i |-> 1,
     SuccessfulItems |-> <<>>, TriageRows |-> <<>>, BlankRowsDiscarded |-> 0,
     logged |-> 0, staging |-> <<>>, saveErr |-> "", errorMsg |-> "",
     rowsUpserted |-> 0]

\* RunJob has returned: its locals are gone
Returned(r) == [IdleRun EXCEPT !.pc = "done", !.cancelledAt = r.cancelledAt]

\* an id that is no row of ingestion_errors
UnknownId == <<"j1", 0>>

IdleCorr == [pc |-> "idle", id |-> UnknownId, data |-> <<>>]

\* no call of a pure function is being looked at
NoCalc == [op |-> "none", done |-> TRUE]

\* no item request is between its read and its write
IdleItem ==
    [pc |-> "idle", id |-> 0,
     params |-> [Scope |-> <<>>, Status |-> "", CustomProperties |-> <<>>]]

\* empty tables, no upload and no correction yet
Quiet ==
    /\ jobs = [j \in JobIds |-> NoJob]
    /\ errors = <<>>
    /\ store = <<>>
    /\ run = [j \in JobIds |-> IdleRun]
    /\ corr = IdleCorr
    /\ rowsLeft = MaxRows
    /\ corrLeft = MaxCorrections
    /\ itemReq = IdleItem
    /\ itemsLeft = MaxItemRequests

Init == Quiet /\ calc = NoCalc

Cancelled(j) == run[j].cancelledAt # "no"

\* a database call made with the job's context: it cannot succeed once the
\* context is done, and can fail for other reasons before
DbOutcomes(j) == IF Cancelled(j) THEN {FALSE} ELSE BOOLEAN

(***************************************************************************)
(* ingestion.Service                                                       *)
(***************************************************************************)
\* CreateIngestionJob: the row StartJob inserts
CreateIngestionJob == [NoJob EXCEPT !.status = "UPLOADED"]

\* HandleUpload: StartJob creates the job row, then RunJob is launched for it
StartJob(j) ==
    /\ run[j].pc = "idle"
    /\ \E reportType \in ReportTypes :
          run' = [run EXCEPT ![j].pc = "start", ![j].reportType = reportType]
    /\ jobs' = [jobs EXCEPT ![j] = CreateIngestionJob]
    /\ UNCHANGED <<errors, store, corr, rowsLeft, corrLeft, calc, itemReq, itemsLeft>>

\* UpdateIngestionJobStatus with the parameters UpdateJobStatus builds
UpdateIngestionJobStatus(row, status, errorDetails, rowsUpserted, rowsTriaged) ==
    [row EXCEPT !.status = status,
                !.completed_at = TRUE,
                !.error_details = errorDetails,
                !.processed_rows = IF rowsUpserted > 0 THEN rowsUpserted ELSE Null,
                !.initial_error_count = IF rowsTriaged > 0 THEN rowsTriaged ELSE Null]

\* UpdateJobStatus: the jobs table after the call; ok = FALSE is a failed update
UpdateJobStatus(js, j, ok, status, errorDetails, rowsUpserted, rowsTriaged) ==
    IF ok
    THEN [js EXCEPT ![j] = UpdateIngestionJobStatus(js[j], status, errorDetails,
                                                    rowsUpserted, rowsTriaged)]
    ELSE js

(***************************************************************************)
(* processing.Service.RunJob                                               *)
(***************************************************************************)
\* a RunJob that goes on when the update to PROCESSING failed
AfterStartIgnoringError(r, ok) == [r EXCEPT !.pc = "open"]

\* RunJob after the update to PROCESSING: on to the file, or return
AfterStart(r, ok) == IF ok THEN [r EXCEPT !.pc = "open"] ELSE Returned(r)

RunStart(j) ==
    /\ run[j].pc = "start"
    /\ \E ok \in DbOutcomes(j) :
          /\ jobs' = UpdateJobStatus(jobs, j, ok, "PROCESSING", "", 0, 0)
          /\ run' = [run EXCEPT ![j] = AfterStart(run[j], ok)]
    /\ UNCHANGED <<errors, store, corr, rowsLeft, corrLeft, calc, itemReq, itemsLeft>>

\* where RunJob goes once Process has returned a result without error
AfterLog(items) == IF Len(items) > 0 THEN "begin" ELSE "final"
AfterProcess(items, triage) == IF Len(triage) > 0 THEN "log" ELSE AfterLog(items)

Failing(r, msg) == [r EXCEPT !.pc = "fail", !.errorMsg = msg]

\* the mapped headers the file's header row lacks
MissingHeaders(config, headers) ==
    {i \in 1..Len(config.ColumnMappings) :
        config.ColumnMappings[i].CSVHeader \notin DOMAIN HeaderMap(headers)}

\* RunJob from the storage reader to the end of Process's preamble (header row,
\* header check, ReadAll, scope field)
RunOpen(j) ==
    /\ run[j].pc = "open"
    /\ LET r  == run[j]
           gc == GetConfig(r.reportType)
       IN  \/ \* NewReader fails
              /\ run' = [run EXCEPT ![j] = Failing(r, "storage")]
              /\ UNCHANGED rowsLeft
           \/ /\ ~Cancelled(j)
              /\ ~gc.found
              /\ run' = [run EXCEPT ![j] = Failing(r, "no_config")]
              /\ UNCHANGED rowsLeft
           \/ \* the header row cannot be read
              /\ ~Cancelled(j)
              /\ gc.found
              /\ run' = [run EXCEPT ![j] = Failing(r, "process")]
              /\ UNCHANGED rowsLeft
           \/ \* a header row that lacks a mapped column
              /\ ~Cancelled(j)
              /\ gc.found
              /\ MissingHeaders(gc.config, BadHeaders) # {}
              /\ run' = [run EXCEPT ![j] = Failing([r EXCEPT !.headers = BadHeaders],
                                                   "process")]
              /\ UNCHANGED rowsLeft
           \/ \* a header row with every mapped column: ReadAll reads the rest
              /\ ~Cancelled(j)
              /\ gc.found
              /\ MissingHeaders(gc.config, GoodHeaders) = {}
              /\ \E lines \in SeqsUpTo(DataLines, rowsLeft) :
                    LET read == ReadAll(FileText(lines))
                        rf   == [r EXCEPT !.headers = GoodHeaders, !.file = lines]
                    IN  /\ run' = [run EXCEPT ![j] =
                                 IF ~read.ok \/ scopeJSONField(gc.config) = <<>>
                                 THEN Failing(rf, "process")
                                 ELSE [rf EXCEPT !.allRecords = read.records,
                                                 !.i = 1,
                                                 !.pc = IF read.records = <<>>
                                                        THEN AfterProcess(<<>>, <<>>)
                                                        ELSE "rows"]]
                        /\ rowsLeft' = rowsLeft - Len(lines)
    /\ UNCHANGED <<jobs, errors, store, corr, corrLeft, calc, itemReq, itemsLeft>>

\* a record loop that discards blank rows without counting them
AddOutcomeUncountedBlank(r, out) ==
    CASE out.kind = "item"   -> [r EXCEPT !.SuccessfulItems = Append(@, out.item)]
      [] out.kind = "triage" -> [r EXCEPT !.TriageRows = Append(@, out.row)]
      [] out.kind = "blank"  -> r

\* the result after one more record: ProcessingResult with the outcome added
AddOutcome(r, out) ==
    CASE out.kind = "item"   -> [r EXCEPT !.SuccessfulItems = Append(@, out.item)]
      [] out.kind = "triage" -> [r EXCEPT !.TriageRows = Append(@, out.row)]
      [] out.kind = "blank"  -> [r EXCEPT !.BlankRowsDiscarded = @ + 1]

\* one pass of Process's record loop; Process consults the context only through
\* the calls it makes (the cross-reference query, the embedder)
ProcessRecord(j) ==
    /\ run[j].pc = "rows"
    /\ LET r  == run[j]
           gc == GetConfig(r.reportType)
       IN  \E dbOk \in DbOutcomes(j),
              emb \in (IF Cancelled(j) THEN {EmbedErr} ELSE EmbedOutcomes) :
             \E out \in ClassifyRecord(gc.config, r.headers, r.allRecords[r.i], r.i,
                                       store, dbOk, emb, gc.config.EmbedContent.set) :
                LET r2 == [AddOutcome(r, out) EXCEPT !.i = r.i + 1]
                IN  run' = [run EXCEPT ![j] =
                              [r2 EXCEPT !.pc = IF r2.i > Len(r.allRecords)
                                                THEN AfterProcess(r2.SuccessfulItems,
                                                                  r2.TriageRows)
                                                ELSE "rows"]]
    /\ UNCHANGED <<jobs, errors, store, corr, rowsLeft, corrLeft, calc, itemReq, itemsLeft>>

\* json.Marshal(row.OriginalRecord)
rowDataJSON(originalRecord) == [h \in DOMAIN originalRecord |-> JStr(originalRecord[h])]

NoData == <<>>

\* CreateIngestionError: the row inserted
CreateIngestionError(j, row) ==
    [job_id |-> j, original_row_data |-> rowDataJSON(row.OriginalRecord),
     reason_for_failure |-> row.FailureReason, status |-> "new",
     corrected_data |-> NoData, resolved_at |-> 0, resolved_by |-> 0]

\* one pass of the loop of logTriageItems: a failed insert is logged and skipped
LogTriageItem(j) ==
    /\ run[j].pc = "log"
    /\ LET r == run[j]
           n == r.logged + 1
       IN  /\ \E ok \in DbOutcomes(j) :
                 errors' = IF ok
                           THEN (<<j, n>> :> CreateIngestionError(j, r.TriageRows[n]))
                                    @@ errors
                           ELSE errors
           /\ run' = [run EXCEPT ![j].logged = n,
                                 ![j].pc = IF n = Len(r.TriageRows)
                                           THEN AfterLog(r.SuccessfulItems) ELSE "log"]
    /\ UNCHANGED <<jobs, store, corr, rowsLeft, corrLeft, calc, itemReq, itemsLeft>>

(***************************************************************************)
(* saveSuccessfulItems: one transaction around CREATE TEMP TABLE, CopyFrom *)
(* and the UpsertItems statement.                                          *)
(***************************************************************************)
\* a CopyFrom that writes every embedding as it is
StagedRowUnchecked(item) == item

\* a row as CopyFrom writes it: an empty embedding and one wider than
\* maxEmbeddingDims are written as NULL (0 dimensions)
StagedRow(item) ==
    [item EXCEPT !.embedding = IF item.embedding > 0
                               THEN (IF item.embedding > maxEmbeddingDims THEN 0 ELSE @)
                               ELSE 0]

CopyFrom(items) == [i \in 1..Len(items) |-> StagedRow(items[i])]

SameKey(a, b) == a.item_type = b.item_type /\ a.business_key = b.business_key

\* custom_properties = EXCLUDED.custom_properties: the new object replaces the old
ReplaceJSONB(old, new) == new

\* jsonb || jsonb: the keys of both objects, the right one's value where both have
\* the key
MergeJSONB(old, new) ==
    [k \in DOMAIN old \cup DOMAIN new |-> IF k \in DOMAIN new THEN new[k] ELSE old[k]]

\* a conflict resolution in which the row in the table wins on the keys both
\* objects have
OnConflictUpdateOldWins(existing, excluded) ==
    [existing EXCEPT !.status = excluded.status,
                     !.scope = excluded.scope,
                     !.custom_properties = MergeJSONB(excluded.custom_properties, @),
                     !.embedding = excluded.embedding]

\* ON CONFLICT (item_type, business_key) DO UPDATE SET ...
OnConflictUpdate(existing, excluded) ==
    [existing EXCEPT !.status = excluded.status,
                     !.scope = excluded.scope,
                     !.custom_properties = MergeJSONB(@, excluded.custom_properties),
                     !.embedding = excluded.embedding]

\* the row INSERT ... SELECT proposes for a staged row
Proposed(staged) == [staged EXCEPT !.status = "active"]

UpsertRow(st, staged) ==
    IF \E i \in 1..Len(st) : SameKey(st[i], staged)
    THEN [i \in 1..Len(st) |->
            IF SameKey(st[i], staged) THEN OnConflictUpdate(st[i], Proposed(staged))
            ELSE st[i]]
    ELSE Append(st, Proposed(staged))

\* UpsertItems: the items table after the statement
RECURSIVE UpsertItems(_, _)
UpsertItems(st, staging) ==
    IF staging = <<>> THEN st
    ELSE UpsertItems(UpsertRow(st, Head(staging)), Tail(staging))

\* PostgreSQL rejects an INSERT ... ON CONFLICT DO UPDATE that would update the
\* same row twice: two staged rows with one key make the statement fail
AffectsRowTwice(staging) ==
    \E i, k \in 1..Len(staging) : i < k /\ SameKey(staging[i], staging[k])

StagedKeys(staging) ==
    {<<staging[i].item_type, staging[i].business_key>> : i \in 1..Len(staging)}

\* statements run on s.queries, outside the transaction: visible at once
SaveWithoutTx(committed, written) == written

\* qtx := s.queries.WithTx(tx): what the other sessions see of the items table
\* after a statement of the open transaction wrote `written`
SaveWithTx(committed, written) == committed

SaveFailed(r, step) ==
    [r EXCEPT !.pc = "fail", !.errorMsg = "save", !.saveErr = step, !.staging = <<>>]

\* keys another job's open transaction has written and not yet committed
LockedByOthers(j) ==
    UNION {StagedKeys(run[k].staging) : k \in {k \in JobIds \ {j} : run[k].pc = "commit"}}

\* Begin, CreateTempItemsStagingTable, CopyFrom and qtx.UpsertItems, up to the
\* commit; the statement waits while another transaction holds one of its keys
SaveUpsert(j) ==
    /\ run[j].pc = "begin"
    /\ LET r       == run[j]
           staging == CopyFrom(r.SuccessfulItems)
       IN  \/ /\ \E step \in (IF Cancelled(j) THEN {"begin"}
                               ELSE {"begin", "create", "copy", "upsert"}) :
                    run' = [run EXCEPT ![j] = SaveFailed(r, step)]
              /\ UNCHANGED store
           \/ /\ ~Cancelled(j)
              /\ AffectsRowTwice(staging)
              /\ run' = [run EXCEPT ![j] = SaveFailed(r, "upsert")]
              /\ UNCHANGED store
           \/ /\ ~Cancelled(j)
              /\ ~AffectsRowTwice(staging)
              /\ StagedKeys(staging) \cap LockedByOthers(j) = {}
              /\ store' = SaveWithTx(store, UpsertItems(store, staging))
              /\ run' = [run EXCEPT ![j].pc = "commit", ![j].staging = staging]
    /\ UNCHANGED <<jobs, errors, corr, rowsLeft, corrLeft, calc, itemReq, itemsLeft>>

\* tx.Commit, or the deferred tx.Rollback when it fails.  As for every database
\* call of this module, a call that returns an error has had no effect: a
\* commit that takes effect while its reply is lost is no part of the faults
\* looked at.
SaveCommit(j) ==
    /\ run[j].pc = "commit"
    /\ LET r == run[j]
       IN  \E ok \in DbOutcomes(j) :
              IF ok
              THEN /\ store' = UpsertItems(store, r.staging)
                   /\ run' = [run EXCEPT ![j].pc = "final",
                                         ![j].rowsUpserted = Len(r.staging),
                                         ![j].staging = <<>>]
              ELSE /\ UNCHANGED store
                   /\ run' = [run EXCEPT ![j] = SaveFailed(r, "commit")]
    /\ UNCHANGED <<jobs, errors, corr, rowsLeft, corrLeft, calc, itemReq, itemsLeft>>

\* a final status that tolerates one triage row
FinalStatusOverOne(rowsTriaged) ==
    IF rowsTriaged > 1 THEN "COMPLETE_WITH_ISSUES" ELSE "COMPLETE"

\* the status RunJob reports for a run without job-level error
FinalStatus(rowsTriaged) == IF rowsTriaged > 0 THEN "COMPLETE_WITH_ISSUES" ELSE "COMPLETE"

\* the last UpdateJobStatus of a run that saved its items; its error is dropped
RunFinal(j) ==
    /\ run[j].pc = "final"
    /\ LET r == run[j]
           rowsTriaged == Len(r.TriageRows)
       IN  \E ok \in DbOutcomes(j) :
              jobs' = UpdateJobStatus(jobs, j, ok, FinalStatus(rowsTriaged), "summary",
                                      r.rowsUpserted, rowsTriaged)
    /\ run' = [run EXCEPT ![j] = Returned(run[j])]
    /\ UNCHANGED <<errors, store, corr, rowsLeft, corrLeft, calc, itemReq, itemsLeft>>

\* the UpdateJobStatus(FAILED) of every error path; its error is dropped
RunFail(j) ==
    /\ run[j].pc = "fail"
    /\ LET r == run[j]
           rowsTriaged == IF r.errorMsg = "save" THEN Len(r.TriageRows) ELSE 0
       IN  \E ok \in DbOutcomes(j) :
              jobs' = UpdateJobStatus(jobs, j, ok, "FAILED", r.errorMsg, 0, rowsTriaged)
    /\ run' = [run EXCEPT ![j] = Returned(run[j])]
    /\ UNCHANGED <<errors, store, corr, rowsLeft, corrLeft, calc, itemReq, itemsLeft>>

\* jobCtx is done: the 15 minute deadline passes while RunJob is running
Cancel(j) ==
    /\ run[j].pc \notin {"idle", "done"}
    /\ ~Cancelled(j)
    /\ run' = [run EXCEPT ![j].cancelledAt = IF run[j].pc = "rows" THEN "rows" ELSE "other"]
    /\ UNCHANGED <<jobs, errors, store, corr, rowsLeft, corrLeft, calc, itemReq, itemsLeft>>

(***************************************************************************)
(* TriageHandler.updateIngestionError: one transaction around              *)
(* UpdateIngestionErrorWithCorrection and                                  *)
(* IncrementIngestionJobResolvedRows.                                      *)
(***************************************************************************)
placeholderUserID == 1

\* a correction that writes the corrected data over the original row data
UpdateOverwritingOriginal(errs, id, correctedData, resolvedBy, now) ==
    [e \in DOMAIN errs |->
        IF e = id
        THEN [errs[e] EXCEPT !.original_row_data = correctedData,
                             !.corrected_data = correctedData,
                             !.status = "pending_revalidation",
                             !.resolved_by = resolvedBy,
                             !.resolved_at = now]
        ELSE errs[e]]

\* UpdateIngestionErrorWithCorrection: the errors table after the statement
UpdateIngestionErrorWithCorrection(errs, id, correctedData, resolvedBy, now) ==
    [e \in DOMAIN errs |->
        IF e = id
        THEN [errs[e] EXCEPT !.corrected_data = correctedData,
                             !.status = "pending_revalidation",
                             !.resolved_by = resolvedBy,
                             !.resolved_at = now]
        ELSE errs[e]]

\* an increment that also reopens the job for another run
IncrementAndReopen(js, errs, id) ==
    [j \in DOMAIN js |->
        IF id \in DOMAIN errs /\ j = errs[id].job_id
        THEN [js[j] EXCEPT !.resolved_rows_count = @ + 1,
                           !.status = "PROCESSING",
                           !.completed_at = FALSE]
        ELSE js[j]]

\* IncrementIngestionJobResolvedRows: the jobs table after the statement
IncrementIngestionJobResolvedRows(js, errs, id) ==
    [j \in DOMAIN js |->
        IF id \in DOMAIN errs /\ j = errs[id].job_id
        THEN [js[j] EXCEPT !.resolved_rows_count = @ + 1]
        ELSE js[j]]

\* statements run on h.queries, outside the transaction: visible at once
TriageWithoutTx(committed, written) == written

\* qtx := h.queries.WithTx(tx): what the other sessions see of a table after a
\* statement of the open transaction wrote `written`
TriageWithTx(committed, written) == committed

\* the time NOW() gives the request
Now == MaxCorrections - corrLeft + 1

\* BeginTx, UpdateIngestionErrorWithCorrection (pgx.ErrNoRows for an id that is
\* no row) and IncrementIngestionJobResolvedRows, up to the commit; an error at
\* any of them returns and the deferred Rollback runs
CorrectStatements ==
    /\ corr.pc = "idle"
    /\ corrLeft > 0
    /\ corrLeft' = corrLeft - 1
    /\ \E id \in DOMAIN errors \cup {UnknownId}, data \in CorrData :
          \/ /\ corr' = IdleCorr
             /\ UNCHANGED <<errors, jobs>>
          \/ /\ id \in DOMAIN errors
             /\ corr' = [pc |-> "commit", id |-> id, data |-> data]
             /\ errors' = TriageWithTx(errors,
                              UpdateIngestionErrorWithCorrection(errors, id, data,
                                                                 placeholderUserID, Now))
             /\ jobs' = TriageWithTx(jobs,
                            IncrementIngestionJobResolvedRows(jobs, errors, id))
    /\ UNCHANGED <<store, run, rowsLeft, calc, itemReq, itemsLeft>>

\* tx.Commit, or the deferred tx.Rollback when it fails
CorrectCommit ==
    /\ corr.pc = "commit"
    /\ corr' = IdleCorr
    /\ \/ UNCHANGED <<errors, jobs>>
       \/ /\ errors' = UpdateIngestionErrorWithCorrection(errors, corr.id, corr.data,
                                                          placeholderUserID, Now - 1)
          /\ jobs' = IncrementIngestionJobResolvedRows(jobs, errors, corr.id)
    /\ UNCHANGED <<store, run, rowsLeft, corrLeft, calc, itemReq, itemsLeft>>

(***************************************************************************)
(* The items API: ItemHandler.HandleCreateItem (POST /items),              *)
(* ItemHandler.HandleUpdateItem (PATCH /items/:id) and                     *)
(* InsuranceHandler.HandleUpdateClaim.  Each statement runs on its own, on *)
(* h.queries, outside any transaction.  The id of an item is its place in  *)
(* store.                                                                  *)
(***************************************************************************)
\* CreateItem: the row the INSERT writes for a request; an empty scope or
\* business key is NULL, the embedding is not set
CreateItem(req) ==
    [item_type |-> req.item_type, scope |-> req.scope,
     business_key |-> req.business_key, status |-> req.status,
     custom_properties |-> req.custom_properties, embedding |-> 0]

\* UpdateItem: SET scope = $2, status = $3, custom_properties = $4 WHERE id = $1
UpdateItem(row, params) ==
    [row EXCEPT !.scope = params.Scope,
                !.status = params.Status,
                !.custom_properties = params.CustomProperties]

\* POST /items: the INSERT fails (unique violation, or any other error) or adds
\* the row; it waits while an open transaction holds the key
HandleCreateItem ==
    /\ itemReq.pc = "idle"
    /\ itemsLeft > 0
    /\ itemsLeft' = itemsLeft - 1
    /\ \E req \in { [item_type |-> "T", scope |-> <<"Z">>, business_key |-> <<"1">>,
                      status |-> "inactive",
                      custom_properties |-> (F_memo :> JStr(<<"z">>))] } :
          \/ UNCHANGED store
          \/ /\ ~ItemExistsByBusinessKey(store, req.item_type, req.business_key)
             /\ <<req.item_type, req.business_key>> \notin LockedByOthers("")
             /\ store' = Append(store, CreateItem(req))
    /\ UNCHANGED <<jobs, errors, run, corr, rowsLeft, corrLeft, calc, itemReq>>

\* PATCH /items/:id up to the call of UpdateItem: GetItemForUpdate (a plain
\* SELECT; an id that is no item is answered 404), then the parameters: the
\* fields of the request that are set, the item's own values as they were read
\* for the others
HandleUpdateItem ==
    /\ itemReq.pc = "idle"
    /\ itemsLeft > 0
    /\ itemsLeft' = itemsLeft - 1
    /\ \E id \in 1..(Len(store) + 1),
          req \in { [Scope |-> <<"Z">>, Status |-> "inactive", CustomProperties |-> <<>>,
                     set |-> {"scope", "status"}],
                    [Scope |-> <<>>, Status |-> "", set |-> {"custom_properties"},
                     CustomProperties |-> (F_memo :> JStr(<<"z">>))] } :
          IF id > Len(store) THEN itemReq' = IdleItem
          ELSE LET existingItem == store[id]
               IN  itemReq' =
                     [pc |-> "update", id |-> id,
                      params |->
                        [Scope  |-> IF "scope" \in req.set THEN req.Scope
                                    ELSE existingItem.scope,
                         Status |-> IF "status" \in req.set THEN req.Status
                                    ELSE existingItem.status,
                         CustomProperties |->
                                    IF "custom_properties" \in req.set
                                    THEN req.CustomProperties
                                    ELSE existingItem.custom_properties]]
    /\ UNCHANGED <<jobs, errors, store, run, corr, rowsLeft, corrLeft, calc>>

\* HandleUpdateClaim up to the call of UpdateItem: GetItemForUpdate, then the
\* parameters: the item's scope and status and its custom properties, as they
\* were read, with "Status" set to the business status of the request
HandleUpdateClaim ==
    /\ itemReq.pc = "idle"
    /\ itemsLeft > 0
    /\ itemsLeft' = itemsLeft - 1
    /\ \E id \in 1..(Len(store) + 1), BusinessStatus \in {<<"o", "k">>} :
          IF id > Len(store) THEN itemReq' = IdleItem
          ELSE LET existingItem == store[id]
               IN  itemReq' =
                     [pc |-> "update", id |-> id,
                      params |->
                        [Scope  |-> existingItem.scope,
                         Status |-> existingItem.status,
                         CustomProperties |->
                            MergeJSONB(existingItem.custom_properties,
                                       <<"S", "t", "a", "t", "u", "s">>
                                           :> JStr(BusinessStatus))]]
    /\ UNCHANGED <<jobs, errors, store, run, corr, rowsLeft, corrLeft, calc>>

\* the call of UpdateItem that ends either update: it fails, or it writes the
\* parameters over the row as it is by then; it waits while an open transaction
\* holds the row
ItemUpdate ==
    /\ itemReq.pc = "update"
    /\ itemReq' = IdleItem
    /\ \/ UNCHANGED store
       \/ /\ <<store[itemReq.id].item_type, store[itemReq.id].business_key>>
                 \notin LockedByOthers("")
          /\ store' = [store EXCEPT ![itemReq.id] = UpdateItem(@, itemReq.params)]
    /\ UNCHANGED <<jobs, errors, run, corr, rowsLeft, corrLeft, calc, itemsLeft>>

\* the steps of one upload: StartJob in HandleUpload, then its RunJob goroutine
Upload(j) ==
    \/ StartJob(j)
    \/ RunStart(j)
    \/ RunOpen(j)
    \/ ProcessRecord(j)
    \/ LogTriageItem(j)
    \/ SaveUpsert(j)
    \/ SaveCommit(j)
    \/ RunFinal(j)
    \/ RunFail(j)

(***************************************************************************)
(* Spec: one upload, its deadline, and the operator's corrections of its   *)
(* triage rows.                                                            *)
(***************************************************************************)
Next ==
    \/ Upload("j1")
    \/ Cancel("j1")
    \/ CorrectStatements
    \/ CorrectCommit
    \/ HandleCreateItem
    \/ HandleUpdateItem
    \/ HandleUpdateClaim
    \/ ItemUpdate

Spec == Init /\ [][Next]_vars

(***************************************************************************)
(* SpecPair: two uploads whose RunJob goroutines run concurrently against  *)
(* the same items table.                                                   *)
(***************************************************************************)
NextPair ==
    \/ \E j \in JobIds : Upload(j)
    \/ HandleCreateItem
    \/ HandleUpdateItem
    \/ HandleUpdateClaim
    \/ ItemUpdate

SpecPair == Init /\ [][NextPair]_vars

(***************************************************************************)
(* SpecCalc: single calls of the pure functions of the processing package. *)
(* calc holds the arguments of one call; the call's action fills in out.   *)
(***************************************************************************)
\* records of 1..MaxFields fields, each "a" or "b"
RepairRecords == SeqsUpTo({<<"a">>, <<"b">>}, MaxFields) \ {<<>>}

\* the repair's arguments: a record, the header row's width and the merge
\* column's index, which is -1 or the index of a header (mergeColumnIndex)
RepairInputs ==
    { c \in { [op |-> "repair", record |-> rec, numHeaders |-> n, mergeIdx |-> m,
               done |-> FALSE, out |-> <<>>]
              : rec \in RepairRecords, n \in 1..MaxHeaders,
                m \in -1..(MaxHeaders - 1) }
        : c.mergeIdx < c.numHeaders }

\* report types whose record loop is looked at
ClassifyConfigs == {"plain", "full", "key", "typo"}

\* data records under the header row id,status,note: up to one field more than
\* the header row has
ClassifyFields  == {<<>>, <<" ">>, <<"1">>, <<"A">>, <<"1", ".", "5">>}
ClassifyRecords == SeqsUpTo(ClassifyFields, MaxHeaders + 1) \ {<<>>}

\* one pass of the record loop: the report type, the record, whether the
\* cross-reference query succeeds and the embedder's answer
ClassifyInputs ==
    { [op |-> "classify", config |-> c, record |-> rec, dbOk |-> ok, emb |-> e,
       done |-> FALSE, out |-> {}]
      : c \in ClassifyConfigs, rec \in ClassifyRecords, ok \in BOOLEAN,
        e \in EmbedOutcomes }

\* the header row that holds exactly the mapped columns, in declared order
MappedHeaders(config) ==
    [i \in 1..Len(config.ColumnMappings) |-> config.ColumnMappings[i].CSVHeader]

\* the items table a cross-reference reads: empty (the mock querier that finds
\* no item), or holding the item manager1 of type USER_PROFILE
RefStores ==
    { <<>>,
      << [item_type |-> "USER_PROFILE", scope |-> <<"A">>,
          business_key |-> <<"m", "a", "n", "a", "g", "e", "r", "1">>,
          status |-> "active", custom_properties |-> <<>>, embedding |-> 0] >> }

\* records under the header row of testConfig: those of the cases of
\* TestProcessRowValidation and every other choice of their fields
TestRecords ==
    { <<id, st, em, mg>>
      : id \in {<<"1", "2", "3">>, <<>>},
        st \in {<<"A", "C", "T", "I", "V", "E">>, <<"P", "E", "N", "D", "I", "N", "G">>},
        em \in {<<"t", "e", "s", "t", "@", "e", "x", "a", "m", "p", "l", "e", ".", "c", "o", "m">>,
                <<"n", "o", "t", "-", "a", "n", "-", "e", "m", "a", "i", "l">>},
        mg \in {<<"m", "a", "n", "a", "g", "e", "r", "1">>,
                <<"n", "o", "n", "e", "x", "i", "s", "t", "e", "n", "t", "_", "m", "a", "n", "a", "g", "e", "r">>} }

\* a call of processRow: the report type, the record, the items table and
\* whether the cross-reference query succeeds
ProcessRowInputs ==
    { c \in { [op |-> "processRow", config |-> c, record |-> rec, st |-> st,
               dbOk |-> ok, done |-> FALSE,
               out |-> [ok |-> TRUE, data |-> <<>>, reasons |-> {}, evaluated |-> 0,
                        lookups |-> {}]]
              : c \in {"TEST_VALIDATION", "full", "tries"},
                rec \in ClassifyRecords \cup TestRecords, st \in RefStores,
                ok \in BOOLEAN }
        : (c.config = "TEST_VALIDATION") <=> (c.record \in TestRecords) }

\* a mapping of a header with nothing else configured
BareMapping(h) ==
    [CSVHeader |-> h, JSONField |-> h, MergeExcessFields |-> FALSE,
     Attempts |-> <<>>, Validation |-> NoRule]

\* configurations as yaml.Unmarshal can hand them to Validate: every top-level
\* field present or absent, up to two mappings
ValidateInputs ==
    { [op |-> "validate", done |-> FALSE, out |-> "nil",
       config |-> [ReportType |-> rt, ItemType |-> it, ScopeField |-> sf,
                   BusinessKey |-> bk,
                   EmbedContent |-> [set |-> FALSE, SourceColumns |-> <<>>],
                   ColumnMappings |-> [i \in DOMAIN hs |-> BareMapping(hs[i])]]]
      : rt \in {"", "plain"}, it \in {"", "T"}, sf \in {<<>>, H_id, H_status},
        bk \in {<<>>, <<H_id>>}, hs \in SeqsUpTo({H_id, H_note}, 2) }

\* values a column can hold when it is validated
RequiredValues ==
    { NilV, StrV(<<>>), StrV(<<" ">>), StrV(<<"\f", " ">>), StrV(<<"a">>), IntV(0), IntV(1),
      DecV(0, 0), DecV(5, -1), TimeV(1, 1, 1), TimeV(2024, 2, 29) }

\* a call of the required validator: a value and a rule with required and
\* allow_zero set, unset, true or false
RequiredInputs ==
    { [op |-> "required", value |-> v, done |-> FALSE, out |-> TRUE,
       rule |-> [NoRule EXCEPT !.Required = req, !.AllowZero = az]]
      : v \in RequiredValues, req \in BOOLEAN, az \in {"unset", "true", "false"} }

\* one call, with its arguments, is about to be made
InitCalc ==
    /\ Quiet
    /\ \/ calc \in RepairInputs
       \/ calc \in ClassifyInputs
       \/ calc \in ProcessRowInputs
       \/ calc \in ValidateInputs
       \/ calc \in RequiredInputs

ApplyRepair ==
    /\ calc.op = "repair" /\ ~calc.done
    /\ calc' = [calc EXCEPT !.done = TRUE,
                            !.out = repairRecord(calc.record, calc.numHeaders,
                                                 calc.mergeIdx)]
    /\ UNCHANGED <<jobs, errors, store, run, corr, rowsLeft, corrLeft, itemReq, itemsLeft>>

\* the outcomes the record can have (one of them happens)
ApplyClassify ==
    /\ calc.op = "classify" /\ ~calc.done
    /\ calc' = [calc EXCEPT !.done = TRUE,
                            !.out = ClassifyRecord(GenericProcessor[calc.config], GoodHeaders,
                                                   calc.record, 1, <<>>, calc.dbOk,
                                                   calc.emb,
                                                   GenericProcessor[calc.config].EmbedContent.set)]
    /\ UNCHANGED <<jobs, errors, store, run, corr, rowsLeft, corrLeft, itemReq, itemsLeft>>

ApplyProcessRow ==
    /\ calc.op = "processRow" /\ ~calc.done
    /\ calc' = [calc EXCEPT !.done = TRUE,
                            !.out = processRow(GenericProcessor[calc.config], calc.record,
                                               HeaderMap(MappedHeaders(GenericProcessor[calc.config])),
                                               calc.st, calc.dbOk)]
    /\ UNCHANGED <<jobs, errors, store, run, corr, rowsLeft, corrLeft, itemReq, itemsLeft>>

ApplyValidate ==
    /\ calc.op = "validate" /\ ~calc.done
    /\ calc' = [calc EXCEPT !.done = TRUE, !.out = Validate(calc.config)]
    /\ UNCHANGED <<jobs, errors, store, run, corr, rowsLeft, corrLeft, itemReq, itemsLeft>>

\* out is whether the validator returns nil
ApplyRequired ==
    /\ calc.op = "required" /\ ~calc.done
    /\ calc' = [calc EXCEPT !.done = TRUE,
                            !.out = validationRequired(calc.value, calc.rule)]
    /\ UNCHANGED <<jobs, errors, store, run, corr, rowsLeft, corrLeft, itemReq, itemsLeft>>

NextCalc ==
    \/ ApplyValidate
    \/ ApplyRequired
    \/ ApplyRepair
    \/ ApplyClassify
    \/ ApplyProcessRow

SpecCalc == InitCalc /\ [][NextCalc]_vars

(***************************************************************************)
(* Properties.                                                             *)
(***************************************************************************)
Terminal == {"FAILED", "COMPLETE", "COMPLETE_WITH_ISSUES"}

\* RunJob holds the result of a Process that returned without error
HasResult(r) ==
    \/ r.pc \in {"log", "begin", "commit", "final"}
    \/ r.pc = "fail" /\ r.errorMsg = "save"

Classified(r) == Len(r.SuccessfulItems) + Len(r.TriageRows) + r.BlankRowsDiscarded

\* C1: every data row read after the header is classified into exactly one of
\* item, triage row and discarded blank: while the record loop runs the rows
\* passed so far, and in a returned result all the rows of the file, number
\* len(SuccessfulItems) + len(TriageRows) + BlankRowsDiscarded.
C1_RowsPartitioned ==
    \A j \in JobIds :
        LET r == run[j]
        IN  /\ r.pc = "rows" => r.i - 1 = Classified(r)
            /\ HasResult(r) => Len(r.allRecords) = Classified(r)

\* a result of a two-row file with one item and one discarded blank row
C1_Witness ==
    \E j \in JobIds :
        /\ HasResult(run[j])
        /\ Len(run[j].allRecords) = 2
        /\ Len(run[j].SuccessfulItems) = 1
        /\ run[j].BlankRowsDiscarded = 1

\* the item a job's successful row k makes is in the table st
Persisted(st, item) ==
    \E i \in 1..Len(st) :
        /\ SameKey(st[i], item)
        /\ st[i].scope = item.scope
        /\ \A key \in DOMAIN item.custom_properties :
              /\ key \in DOMAIN st[i].custom_properties
              /\ st[i].custom_properties[key] = item.custom_properties[key]

\* a step of a request of the items API
ItemApiStep == itemsLeft' # itemsLeft \/ itemReq' # itemReq

\* C2: saveSuccessfulItems is all-or-nothing: but for the writes of the items
\* API, the items table changes only in the step that commits a job's
\* transaction, and then every successful row of that job is in it; a step in
\* which the save fails leaves the table as it was.
C2_AllOrNothing ==
    [][/\ store' # store /\ ~ItemApiStep =>
            \E j \in JobIds :
                /\ run[j].pc = "commit"
                /\ run'[j].pc = "final"
                /\ \A k \in 1..Len(run[j].SuccessfulItems) :
                      Persisted(store', run[j].SuccessfulItems[k])
       /\ \A j \in JobIds :
             run[j].pc \in {"begin", "commit"} /\ run'[j].pc = "fail" => store' = store
      ]_vars

\* a commit of two staged rows has failed and the table holds none of them
C2_Witness ==
    \E j \in JobIds :
        /\ run[j].pc = "fail"
        /\ run[j].saveErr = "commit"
        /\ Len(run[j].SuccessfulItems) = 2
        /\ store = <<>>

\* C3: when the staging transaction of a job fails, RunJob leaves the job
\* FAILED, none of the job's successful rows is in the items table, and the
\* triage rows written for the job are still in ingestion_errors.
C3_StagingFailure ==
    [][\A j \in JobIds :
          run[j].pc = "fail" /\ run[j].errorMsg = "save" /\ run'[j].pc = "done"
          => /\ jobs'[j].status = "FAILED"
             /\ \A k \in 1..Len(run[j].SuccessfulItems) :
                   ~Persisted(store', run[j].SuccessfulItems[k])
             /\ errors' = errors
      ]_vars

\* C4: a job's status moves only from UPLOADED to PROCESSING and from
\* PROCESSING to FAILED, COMPLETE or COMPLETE_WITH_ISSUES; a terminal status
\* never changes, whatever uploads, runs and corrections follow.
C4_StatusMonotonic ==
    [][\A j \in JobIds :
          jobs'[j].status # jobs[j].status
          => \/ jobs[j].status = "none" /\ jobs'[j].status = "UPLOADED"
             \/ jobs[j].status = "UPLOADED" /\ jobs'[j].status = "PROCESSING"
             \/ jobs[j].status = "PROCESSING" /\ jobs'[j].status \in Terminal
      ]_vars

\* a job that ended COMPLETE_WITH_ISSUES and had a triage row corrected since
C4_Witness ==
    \E j \in JobIds :
        /\ run[j].pc = "done"
        /\ jobs[j].status = "COMPLETE_WITH_ISSUES"
        /\ jobs[j].resolved_rows_count = 1

\* C5: once RunJob has returned, the job has a terminal status, also when an
\* update of the job's status or the storage read failed.
C5_EndsTerminal ==
    \A j \in JobIds : run[j].pc = "done" => jobs[j].status \in Terminal

\* C6: once the job's context is done while records are still to be processed,
\* no further record is classified, and the job is FAILED when RunJob returns.
C6_CancelStopsAndFails ==
    /\ [][\A j \in JobIds :
             run[j].cancelledAt = "rows" /\ run'[j].pc # "done" => run'[j].i = run[j].i
         ]_vars
    /\ [](\A j \in JobIds :
             run[j].pc = "done" /\ run[j].cancelledAt = "rows"
             => jobs[j].status = "FAILED")

\* C7: a job whose status becomes COMPLETE or COMPLETE_WITH_ISSUES gets
\* COMPLETE_WITH_ISSUES if and only if Process produced at least one triage row
\* for it.
C7_IssuesIffTriage ==
    [][\A j \in JobIds :
          jobs'[j].status # jobs[j].status
          /\ jobs'[j].status \in {"COMPLETE", "COMPLETE_WITH_ISSUES"}
          => (jobs'[j].status = "COMPLETE_WITH_ISSUES" <=> Len(run[j].TriageRows) > 0)
      ]_vars

\* a job COMPLETE_WITH_ISSUES with one row upserted and one triaged
C7_Witness ==
    \E j \in JobIds :
        /\ jobs[j].status = "COMPLETE_WITH_ISSUES"
        /\ jobs[j].processed_rows = 1
        /\ jobs[j].initial_error_count = 1

\* the ingestion_errors rows a step changes
Corrected == {e \in DOMAIN errors : errors'[e] # errors[e]}

\* C8: a correction is atomic: in every step, a triage row changes if and only
\* if its job's resolved_rows_count grows, and then the row has the request's
\* corrected_data, status pending_revalidation and the resolver's stamp, and the
\* counter has grown by exactly one; every other step changes neither.
C8_CorrectionAtomic ==
    [][/\ Cardinality(Corrected) <= 1
       /\ \A e \in Corrected :
             /\ errors'[e] = [errors[e] EXCEPT !.corrected_data = corr.data,
                                               !.status = "pending_revalidation",
                                               !.resolved_by = placeholderUserID,
                                               !.resolved_at = errors'[e].resolved_at]
             /\ e = corr.id
       /\ \A j \in JobIds :
             jobs'[j].resolved_rows_count =
                jobs[j].resolved_rows_count
                  + Cardinality({e \in Corrected : errors[e].job_id = j})
      ]_vars

\* a committed correction: the row awaits revalidation and its job counts it
C8_Witness ==
    /\ corr.pc = "idle"
    /\ \E e \in DOMAIN errors :
          /\ errors[e].status = "pending_revalidation"
          /\ errors[e].corrected_data \in CorrData
          /\ jobs[errors[e].job_id].resolved_rows_count = 1

\* C9: the header->value map stored with a triage row determines every field of
\* the record as it was read from the file.
C9_OriginalPreserved ==
    \A j \in JobIds :
        \A k \in 1..Len(run[j].TriageRows) :
            LET row == run[j].TriageRows[k]
                raw == run[j].allRecords[row.index]
            IN  \A f \in 1..Len(raw) :
                    /\ f <= Len(run[j].headers)
                    /\ run[j].headers[f] \in DOMAIN row.OriginalRecord
                    /\ row.OriginalRecord[run[j].headers[f]] = raw[f]

UniqueKeys(st) == \A a, b \in 1..Len(st) : SameKey(st[a], st[b]) => a = b

\* C10: the items table never holds two items with one (item_type,
\* business_key), and when a job commits a row whose key is in the table, the
\* item's custom_properties get the keys of the old and of the new object, with
\* the new row's value where it has the key and the old value elsewhere, and its
\* status, scope and embedding become those of the new row.
C10_UpsertMerges ==
    [][/\ UniqueKeys(store')
       /\ \A j \in JobIds :
             run[j].pc = "commit" /\ run'[j].pc = "final" =>
                \A k \in 1..Len(run[j].staging), i \in 1..Len(store) :
                    LET new == run[j].staging[k]
                        P1  == store[i].custom_properties
                        P2  == new.custom_properties
                    IN  SameKey(store[i], new) =>
                          /\ SameKey(store'[i], new)
                          /\ DOMAIN store'[i].custom_properties = DOMAIN P1 \cup DOMAIN P2
                          /\ \A key \in DOMAIN P1 \cup DOMAIN P2 :
                                store'[i].custom_properties[key] =
                                    IF key \in DOMAIN P2 THEN P2[key] ELSE P1[key]
                          /\ store'[i].status = new.status
                          /\ store'[i].scope = new.scope
                          /\ store'[i].embedding = new.embedding
      ]_vars

\* key "1" upserted under "full" and then under "plain": the memo of the first
\* payload with the id, scope and (absent) embedding of the second
C10_Witness ==
    \E i \in 1..Len(store) :
        /\ F_memo \in DOMAIN store[i].custom_properties
        /\ H_id \in DOMAIN store[i].custom_properties
        /\ store[i].custom_properties[H_id] = JStr(<<"1">>)
        /\ store[i].custom_properties[F_memo] = JStr(<<"n">>)
        /\ store[i].scope = <<"B">>
        /\ store[i].embedding = 0

\* the file of run j has a header row that was read and holds every mapped header
HeaderRowGood(j) ==
    /\ run[j].headers # <<>>
    /\ MissingHeaders(GetConfig(run[j].reportType).config, run[j].headers) = {}

\* C11: row-level errors never abort the job: for a file whose header row is
\* readable and holds every mapped header, a defect confined to a data row
\* (wrong width, unparseable field or quoting, failed transform or validation,
\* missing key or scope, embedding failure) never makes Process return an error,
\* so the job is never set to FAILED on account of reading and classifying the
\* rows.
C11_RowErrorsNeverFailJob ==
    [][\A j \in JobIds :
          /\ HeaderRowGood(j)
          /\ jobs[j].status # "FAILED"
          /\ jobs'[j].status = "FAILED"
          => run[j].errorMsg # "process"
      ]_vars

\* C12: row repair.  For a row with k > 0 more fields than the header row and a
\* merge column at header index m, the repaired row is as wide as the header
\* row, its fields before m are the original ones, field m is the comma-join of
\* the original fields m..m+k, the fields after m are the original fields from
\* m+k+1 on in order, and the slice m..m+k lies inside the row.
C12_RowRepair ==
    (calc.op = "repair" /\ calc.done) =>
       LET rec == calc.record
           n   == calc.numHeaders
           m   == calc.mergeIdx
           k   == Len(rec) - n
           out == calc.out
       IN  (k > 0 /\ m # -1) =>
              /\ m + k + 1 <= Len(rec)
              /\ Len(out) = n
              /\ \A i \in 1..m : out[i] = rec[i]
              /\ out[m + 1] = Join([i \in 1..(k + 1) |-> rec[m + i]], <<",">>)
              /\ \A i \in (m + 2)..n : out[i] = rec[i + k]

\* a row two fields too wide was repaired at a merge column in the middle
C12_Witness ==
    /\ calc.op = "repair" /\ calc.done
    /\ calc.numHeaders = 3 /\ calc.mergeIdx = 1
    /\ calc.record = << <<"a">>, <<"b">>, <<"a">>, <<"b">>, <<"a">> >>
    /\ calc.out = << <<"a">>, <<"b", ",", "a", ",", "b">>, <<"a">> >>

\* C13: every data row all of whose fields are empty or whitespace is discarded
\* and counted as blank, and is neither triaged nor made an item, whatever its
\* number of fields.
C13_BlankRowsDiscarded ==
    (calc.op = "classify" /\ calc.done /\ isRowBlank(calc.record))
        => calc.out = {Blank}

\* the value of one mapped column, taken alone, fails its transform attempts or
\* its validation
ColumnOffends(mapping, record, headerMap, st, dbOk) ==
    LET colIdx   == headerMap[mapping.CSVHeader]
        rawValue == IF colIdx < Len(record) THEN record[colIdx + 1] ELSE <<>>
        tr       == IF Len(mapping.Attempts) > 0
                    THEN tryAttempts(rawValue, mapping.Attempts, "")
                    ELSE Ok(StrV(rawValue))
    IN  ~tr.ok \/ applyValidation(tr.val, mapping.Validation, st, dbOk) # {}

\* C14: processRow fails if and only if some mapped column's value fails its
\* transform attempts or violates its validation rule; when it fails, every
\* error it can return carries one reason, for the first offending column in
\* declared order, and no column behind that one is evaluated: the loop has
\* looked at the columns up to the offending one only, processed the fields of
\* the columns before it only, and issued no cross-reference read for a later
\* column.
C14_FirstOffendingColumn ==
    (calc.op = "processRow" /\ calc.done) =>
       LET ms       == GenericProcessor[calc.config].ColumnMappings
           hm       == HeaderMap(MappedHeaders(GenericProcessor[calc.config]))
           offend   == {i \in 1..Len(ms) :
                           ColumnOffends(ms[i], calc.record, hm, calc.st, calc.dbOk)}
           out      == calc.out
       IN  /\ out.ok <=> offend = {}
           /\ out.ok => out.reasons = {} /\ out.evaluated = Len(ms)
           /\ ~out.ok =>
                LET first == CHOOSE i \in offend : \A k \in offend : i <= k
                IN  /\ out.reasons # {}
                    /\ \A r \in out.reasons : r.col = ms[first].CSVHeader
                    /\ out.evaluated = first
                    /\ DOMAIN out.data = {ms[i].JSONField : i \in 1..(first - 1)}
                    /\ \A h \in out.lookups : \E i \in 1..first : ms[i].CSVHeader = h

\* the status and the manager of a record both offend, the manager's value
\* would be looked up, and processRow has stopped at the status
C14_Witness ==
    /\ calc.op = "processRow" /\ calc.done
    /\ calc.config = "TEST_VALIDATION"
    /\ calc.record = << <<"1", "2", "3">>, <<"P", "E", "N", "D", "I", "N", "G">>,
                        <<"t", "e", "s", "t", "@", "e", "x", "a", "m", "p", "l", "e", ".", "c", "o", "m">>,
                        <<"n", "o", "n", "e", "x", "i", "s", "t", "e", "n", "t", "_", "m", "a", "n", "a", "g", "e", "r">> >>
    /\ calc.st # <<>> /\ calc.dbOk
    /\ ~calc.out.ok
    /\ calc.out.evaluated = 2
    /\ calc.out.lookups = {}
    /\ {r.col : r \in calc.out.reasons} = {H_status}

\* C15: IngestionConfig.Validate returns an error if and only if report_type
\* is empty, item_type is empty, scope_field is empty, business_key is empty,
\* column_mappings is empty, or scope_field equals no mapping's csv_header; for
\* every other configuration it returns nil.
C15_ValidateIff ==
    (calc.op = "validate" /\ calc.done) =>
       LET c == calc.config
       IN  (calc.out # "nil") <=>
              \/ c.ReportType = ""
              \/ c.ItemType = ""
              \/ c.ScopeField = <<>>
              \/ c.BusinessKey = <<>>
              \/ c.ColumnMappings = <<>>
              \/ \A i \in 1..Len(c.ColumnMappings) :
                    c.ColumnMappings[i].CSVHeader # c.ScopeField

\* a configuration complete but for a scope field no mapping has was refused
C15_Witness ==
    /\ calc.op = "validate" /\ calc.done
    /\ calc.config.ReportType = "plain" /\ calc.config.ItemType = "T"
    /\ calc.config.ScopeField = H_status /\ calc.config.BusinessKey = <<H_id>>
    /\ Len(calc.config.ColumnMappings) = 2
    /\ calc.out = "scope_header"

\* the record of a classify call as the record loop sees it behind the repair
Repaired(c) ==
    repairRecord(c.record, Len(GoodHeaders),
                 mergeColumnIndex(GenericProcessor[c.config], HeaderMap(GoodHeaders)))

\* what processRow makes of the record of a classify call
RowData(c) == processRow(GenericProcessor[c.config], Repaired(c), HeaderMap(GoodHeaders), <<>>, c.dbOk)

\* a classify call was made for a row, not blank and as wide as the header row,
\* whose columns all pass transform and validation
AllColumnsPass ==
    /\ calc.op = "classify" /\ calc.done
    /\ Len(Repaired(calc)) = Len(GoodHeaders)
    /\ ~isRowBlank(Repaired(calc))
    /\ RowData(calc).ok

\* positions in the business key of the fields that are missing or nil
MissingKeyFields(c) ==
    {i \in 1..Len(GenericProcessor[c.config].BusinessKey) :
        \/ GenericProcessor[c.config].BusinessKey[i] \notin DOMAIN RowData(c).data
        \/ RowData(c).data[GenericProcessor[c.config].BusinessKey[i]].t = "nil"}

FirstMissingKeyField(c) ==
    GenericProcessor[c.config].BusinessKey[CHOOSE i \in MissingKeyFields(c) :
                             \A k \in MissingKeyFields(c) : i <= k]

\* C16: for a row whose columns all pass transform and validation,
\* the business key is the '-'-join of the key fields' values in declared
\* order; if one or more key fields are missing or nil the row produces exactly
\* one triage entry, naming the first missing key field in declared order, and
\* no successful item.
C16_KeyResolution ==
    AllColumnsPass =>
       /\ \A o \in calc.out :
             o.kind = "item" =>
                o.item.business_key =
                   Join([i \in 1..Len(GenericProcessor[calc.config].BusinessKey) |->
                            FmtV(RowData(calc).data[GenericProcessor[calc.config].BusinessKey[i]])],
                        <<"-">>)
       /\ MissingKeyFields(calc) # {} =>
             calc.out = {Triaged(Repaired(calc), GoodHeaders,
                                 Reason("business_key", FirstMissingKeyField(calc), ""),
                                 1)}

\* positions of the successful rows of run r whose vector is wider than the
\* items table's embedding column
Oversized(r) ==
    {k \in 1..Len(r.SuccessfulItems) : r.SuccessfulItems[k].embedding > maxEmbeddingDims}

\* C17: a successful row whose embedding vector has more than 384 dimensions is
\* staged with a null embedding; when the transaction commits it is in the
\* items table, with a null embedding, and is counted among the processed rows;
\* the save moves no row to triage.
C17_OversizedEmbeddingNulled ==
    [][\A j \in JobIds :
          /\ run[j].pc = "begin" /\ run'[j].pc = "commit"
             => \A k \in Oversized(run[j]) :
                   /\ SameKey(run'[j].staging[k], run[j].SuccessfulItems[k])
                   /\ run'[j].staging[k].embedding = 0
          /\ run[j].pc = "commit" /\ run'[j].pc = "final"
             => /\ \A k \in Oversized(run[j]) :
                      /\ Persisted(store', run[j].SuccessfulItems[k])
                      /\ \A i \in 1..Len(store') :
                            SameKey(store'[i], run[j].SuccessfulItems[k])
                               => store'[i].embedding = 0
                /\ run'[j].rowsUpserted = Len(run[j].SuccessfulItems)
          /\ run[j].pc \in {"begin", "commit"}
             => /\ run'[j].pc # "done"
                /\ run'[j].TriageRows = run[j].TriageRows
                /\ run'[j].SuccessfulItems = run[j].SuccessfulItems
          /\ /\ run[j].pc = "final" /\ Oversized(run[j]) # {}
             /\ jobs'[j].status \in {"COMPLETE", "COMPLETE_WITH_ISSUES"}
             => jobs'[j].processed_rows = Len(run[j].SuccessfulItems)
      ]_vars

\* a job whose only row had a vector of 385 dimensions has committed: the row
\* is in the items table without embedding and no row was triaged
C17_Witness ==
    \E j \in JobIds :
        /\ run[j].pc = "final"
        /\ Len(run[j].SuccessfulItems) = 1
        /\ Oversized(run[j]) = {1}
        /\ run[j].TriageRows = <<>>
        /\ run[j].rowsUpserted = 1
        /\ Len(store) = 1
        /\ store[1].embedding = 0

\* C18: the required validation fails on an empty or whitespace string, on nil
\* and on a zero-value time; on an integer or decimal equal to zero it fails
\* unless the rule's allow_zero is set to true, so a required column without
\* an allow_zero setting rejects the value 0; every other value passes.
C18_RequiredRejectsZero ==
    (calc.op = "required" /\ calc.done /\ calc.rule.Required) =>
       LET v == calc.value
       IN  ~calc.out <=>
              \/ v.t = "nil"
              \/ v.t = "string" /\ TrimSpace(v.s) = <<>>
              \/ v.t = "time" /\ v.y = 1 /\ v.m = 1 /\ v.d = 1
              \/ /\ \/ v.t = "int64" /\ v.n = 0
                    \/ v.t = "decimal" /\ v.coef = 0
                 /\ calc.rule.AllowZero # "true"

\* the first transform of the mapping's first attempt is not registered
NamesUnknownTransform(mapping) ==
    /\ mapping.Attempts # <<>>
    /\ mapping.Attempts[1].Transforms # <<>>
    /\ mapping.Attempts[1].Transforms[1].name \notin transformRegistry

\* a classify call in which a mapping that names an unknown transform is
\* applied: the configuration is one the loader accepts, the row gets as far
\* as processRow and no column before the mapping offends
UnknownTransformApplied ==
    /\ calc.op = "classify" /\ calc.done
    /\ Validate(GenericProcessor[calc.config]) = "nil"
    /\ Len(Repaired(calc)) = Len(GoodHeaders)
    /\ ~isRowBlank(Repaired(calc))
    /\ \E m \in 1..Len(GenericProcessor[calc.config].ColumnMappings) :
          /\ NamesUnknownTransform(GenericProcessor[calc.config].ColumnMappings[m])
          /\ \A k \in 1..(m - 1) :
                ~ColumnOffends(GenericProcessor[calc.config].ColumnMappings[k], Repaired(calc),
                               HeaderMap(GoodHeaders), <<>>, calc.dbOk)

\* C19: a transform name that is not registered is never silently ignored:
\* when a column mapping that names it is applied the result is a failure of
\* the configuration, not a skipped attempt and not a triaged row; the row is
\* neither accepted through a later attempt nor triaged.
C19_UnknownTransformFails ==
    UnknownTransformApplied => \A o \in calc.out : o.kind \notin {"item", "triage"}

\* a step of updateIngestionError: its statements or its commit
CorrectionStep ==
    \/ corrLeft' # corrLeft
    \/ corr.pc = "commit" /\ corr'.pc = "idle"

\* C20: a triage correction changes only the corrected triage row and the
\* parent job's resolved_rows_count: it leaves every job's status,
\* completed_at, processed_rows and initial_error_count as they were, creates
\* or modifies no item, starts no processing, and stores the corrected data as
\* it was sent, without running transform or validation on it.
C20_CorrectionFrame ==
    [][CorrectionStep =>
          /\ store' = store
          /\ run' = run
          /\ \A j \in JobIds :
                /\ jobs'[j] = [jobs[j] EXCEPT !.resolved_rows_count =
                                                 jobs'[j].resolved_rows_count]
                /\ jobs'[j].resolved_rows_count # jobs[j].resolved_rows_count
                      => /\ corr.pc = "commit"
                         /\ errors[corr.id].job_id = j
          /\ DOMAIN errors' = DOMAIN errors
          /\ \A e \in DOMAIN errors :
                errors'[e] # errors[e]
                   => /\ corr.pc = "commit" /\ e = corr.id
                      /\ errors'[e].corrected_data = corr.data
                      /\ errors'[e].job_id = errors[e].job_id
                      /\ errors'[e].original_row_data = errors[e].original_row_data
                      /\ errors'[e].reason_for_failure = errors[e].reason_for_failure
      ]_vars

\* a correction was committed for a job that ended with issues: the job keeps
\* its terminal status and its counts, and the items table holds no row
C20_Witness ==
    /\ corr.pc = "idle"
    /\ store = <<>>
    /\ \E e \in DOMAIN errors :
          /\ errors[e].status = "pending_revalidation"
          /\ jobs[errors[e].job_id].status = "COMPLETE_WITH_ISSUES"
          /\ jobs[errors[e].job_id].initial_error_count = 1
          /\ jobs[errors[e].job_id].resolved_rows_count = 1
          /\ run[errors[e].job_id].pc = "done"

\* C21: for a column mapping with one or more transform attempts the value used
\* is the result of the first attempt, in declared order, whose whole chain
\* succeeds; if every attempt fails the row fails with the error of the last
\* attempt; if no attempts are declared the raw string is used unchanged.
C21_FirstSuccessfulAttempt ==
    (calc.op = "processRow" /\ calc.done) =>
       LET ms  == GenericProcessor[calc.config].ColumnMappings
           hm  == HeaderMap(MappedHeaders(GenericProcessor[calc.config]))
           out == calc.out
       IN  \A i \in 1..Len(ms) :
              LET raw  == IF hm[ms[i].CSVHeader] < Len(calc.record)
                          THEN calc.record[hm[ms[i].CSVHeader] + 1] ELSE <<>>
                  res  == [k \in 1..Len(ms[i].Attempts) |->
                             applyTransforms(raw, ms[i].Attempts[k].Transforms)]
                  good == {k \in 1..Len(ms[i].Attempts) : res[k].ok}
                  used == out.ok \/ i < out.evaluated
              IN  /\ used => ms[i].JSONField \in DOMAIN out.data
                  /\ used /\ ms[i].Attempts = <<>>
                        => out.data[ms[i].JSONField] = StrV(raw)
                  /\ used /\ ms[i].Attempts # <<>>
                        => /\ good # {}
                           /\ out.data[ms[i].JSONField] =
                                 res[CHOOSE k \in good : \A n \in good : k <= n].val
                  /\ (~out.ok /\ i = out.evaluated)
                        => IF ms[i].Attempts # <<>> /\ good = {}
                           THEN out.reasons =
                                  {Reason("transform", ms[i].CSVHeader,
                                          res[Len(ms[i].Attempts)].err)}
                           ELSE \A r \in out.reasons : r.kind = "validation"

\* the id 1.5 was taken as a decimal by the second attempt, after the first
\* attempt had trimmed it and failed to read an integer, and the status, which
\* has no attempts, stayed the blank it was
C21_Witness ==
    /\ calc.op = "processRow" /\ calc.done
    /\ calc.config = "tries"
    /\ calc.record = << <<"1", ".", "5">>, <<" ">>, <<"A">> >>
    /\ calc.out.ok
    /\ calc.out.data[H_id] = DecV(15, -1)
    /\ calc.out.data[H_status] = StrV(<<" ">>)

\* a classify call in which the embedder is called for the row: the row is as
\* wide as the header row, not blank, passes processRow, and the configuration
\* declares embed_content whose source columns give a text that is not empty
EmbedderCalled ==
    /\ AllColumnsPass
    /\ GenericProcessor[calc.config].EmbedContent.set
    /\ textToEmbed(GenericProcessor[calc.config], RowData(calc).data) # <<>>

\* C22: when the configuration declares embed_content and the embedding
\* function returns an error for a row, the row is added to the triage rows with
\* an embedding-specific reason and is not added to the successful items: no row
\* whose embedding call failed becomes an item without a vector.
C22_EmbeddingFailureTriaged ==
    (EmbedderCalled /\ ~calc.emb.ok) =>
        /\ calc.out = {Triaged(Repaired(calc), GoodHeaders,
                               Reason("embedding", <<>>, ""), 1)}
        /\ \A o \in calc.out : o.kind # "item"

\* the row 1,A,1 under "full", good in every other respect, was triaged for
\* its embedding
C22_Witness ==
    /\ EmbedderCalled /\ ~calc.emb.ok
    /\ calc.config = "full"
    /\ calc.record = << <<"1">>, <<"A">>, <<"1">> >>
    /\ \E o \in calc.out : o.kind = "triage" /\ o.row.FailureReason.kind = "embedding"

\* in this step job j, whose report type cross-references the items table,
\* classifies a record and makes it an item: its cross-reference has passed
CrossReferencePasses(j) ==
    /\ run[j].pc = "rows"
    /\ run[j].reportType = "ref"
    /\ run'[j].i = run[j].i + 1
    /\ Len(run'[j].SuccessfulItems) = Len(run[j].SuccessfulItems) + 1

\* C23: the cross-reference validator reads the committed items table, outside
\* every staging transaction: with two concurrent jobs, a row of job B that
\* cross-references an item passes only when the item is in the committed
\* table, and, the two jobs being the only writers of the table (the items API
\* has received no request), never while job A, which stages that item, has
\* written it in its transaction and not committed; B's row read at that
\* moment is triaged.
C23_CrossReferenceReadsCommitted ==
    [][\A j \in JobIds :
          CrossReferencePasses(j) =>
             LET id == run[j].allRecords[run[j].i][1]
             IN  /\ ItemExistsByBusinessKey(store, "T", id)
                 /\ itemsLeft = MaxItemRequests =>
                       \A k \in JobIds \ {j} :
                          ~(/\ run[k].pc = "commit"
                            /\ <<"T", id>> \in StagedKeys(run[k].staging))
      ]_vars

\* job A has staged item 1 and not committed, and the row of job B that refers
\* to item 1 has been triaged for its cross-reference
C23_Witness ==
    \E j, k \in JobIds :
        /\ run[k].pc = "commit"
        /\ <<"T", <<"1">>>> \in StagedKeys(run[k].staging)
        /\ run[j].reportType = "ref"
        /\ \E n \in 1..Len(run[j].TriageRows) :
              /\ run[j].TriageRows[n].FailureReason =
                    Reason("validation", H_id, "exists_in_items")
              /\ run[j].TriageRows[n].OriginalRecord[H_id] = <<"1">>

\* in this step job j commits its staging transaction after job k has committed
\* its own and before k's RunJob has returned
CommitsSecond(j, k) ==
    /\ j # k
    /\ run[j].pc = "commit" /\ run'[j].pc = "final"
    /\ run[k].pc = "final" /\ run[k].rowsUpserted > 0

\* the job's row is as StartJob created it, no further status update having
\* been made.
C25_FailedStartAborts ==
    /\ [][\A j \in JobIds :
             run[j].pc = "start" /\ run'[j].pc # "start" /\ jobs'[j].status # "PROCESSING"
             => run'[j].pc = "done" /\ jobs'[j] = jobs[j]
         ]_vars
    /\ [](\A j \in JobIds :
             run[j].pc = "done" /\ jobs[j].status = "UPLOADED"
             => /\ jobs[j] = CreateIngestionJob
                /\ \A e \in DOMAIN errors : errors[e].job_id # j
                /\ \A i \in 1..Len(store) : store[i].status # "active"
                /\ Len(store) <= MaxItemRequests - itemsLeft
                /\ rowsLeft = MaxRows)

\* RunJob has returned from a failed update to PROCESSING: the job is still
\* UPLOADED and nothing was read or written
C25_Witness ==
    /\ run["j1"].pc = "done"
    /\ run["j1"].cancelledAt = "no"
    /\ jobs["j1"].status = "UPLOADED"
    /\ errors = <<>> /\ store = <<>>

\* C26: per row the stages run in the order row repair, row processor,
\* key/scope resolver, embedding, batch accumulator: the embedding function is
\* invoked for a row only after its scope and its business key have been
\* resolved, so a row for which it is invoked is never triaged for a missing
\* scope or a missing business-key field.
C26_EmbeddingAfterKeyAndScope ==
    EmbedderCalled =>
        \A o \in calc.out :
            o.kind = "triage" =>
                o.row.FailureReason.kind \notin
                    {"scope_missing", "scope_not_string", "business_key"}

\* C27: a triage row is created with the original row data, the failure reason
\* and the job id of its creation, and whatever corrections are applied to it
\* later, these three stay as they were written: a step changes of an existing
\* triage row only corrected_data, status, resolved_by and resolved_at, and no
\* triage row is ever removed.
C27_OriginalKeptThroughCorrections ==
    [][/\ DOMAIN errors \subseteq DOMAIN errors'
       /\ \A e \in DOMAIN errors' :
             IF e \in DOMAIN errors
             THEN errors'[e] = [errors[e] EXCEPT
                                   !.corrected_data = errors'[e].corrected_data,
                                   !.status = errors'[e].status,
                                   !.resolved_by = errors'[e].resolved_by,
                                   !.resolved_at = errors'[e].resolved_at]
             ELSE errors'[e] = CreateIngestionError(e[1], run[e[1]].TriageRows[e[2]])
      ]_vars

\* a triage row has been corrected twice, with different data, and still has
\* the row data and the reason it was created with
C27_Witness ==
    \E e \in DOMAIN errors :
        /\ corr.pc = "idle" /\ corrLeft = 0
        /\ errors[e].resolved_at = 2
        /\ jobs[errors[e].job_id].resolved_rows_count = 2
        /\ errors[e].corrected_data = (H_status :> JStr(<<"A">>))
        /\ errors[e].original_row_data[H_status] = JStr(<<"P">>)
        /\ errors[e].reason_for_failure = Reason("validation", H_status, "enum")

\* the triage rows of job j in ingestion_errors
TriageRowsOf(j) == {e \in DOMAIN errors : errors[e].job_id = j}

\* C28: after any sequence of triage corrections, several corrections of one
\* triage row included, a job's resolved_rows_count exceeds neither the number
\* of triage rows that belong to the job nor, once it is recorded, the job's
\* initial_error_count.
C28_ResolvedCountBounded ==
    \A j \in JobIds :
        /\ jobs[j].resolved_rows_count <= Cardinality(TriageRowsOf(j))
        /\ jobs[j].initial_error_count # Null
              => jobs[j].resolved_rows_count <= jobs[j].initial_error_count

\* C29: for every job in a terminal status, the initial_error_count recorded
\* on the job (NULL counting as none) is the number of triage rows that
\* ingestion_errors holds for the job, also when the insert of a triage row
\* has failed while the rows were written.
C29_ErrorCountMatchesRows ==
    \A j \in JobIds :
        jobs[j].status \in Terminal =>
            (IF jobs[j].initial_error_count = Null THEN 0
             ELSE jobs[j].initial_error_count) = Cardinality(TriageRowsOf(j))

\* C30: row classification is deterministic: for one record, configuration,
\* items table and set of answers of the database and the embedder, the record
\* loop has one outcome, the same item or the same triage row with the same
\* failure reason in every run, also for a value that violates more than one
\* validation rule of its column.
C30_ClassificationDeterministic ==
    (calc.op = "classify" /\ calc.done) => Cardinality(calc.out) = 1


=============================================================================
